---- MODULE Spec2Model ----
(***************************************************************************)
(* Verification model of GridWatchNetEnterprise.                           *)
(*                                                                         *)
(*   Part I   npm poll scheduler   (apps/npm/.../snmpv3_poller.py)         *)
(*   Part II  syslog collector     (apps/syslog/.../collector.py)          *)
(*                                                                         *)
(* Each part has its own specification over the shared variable tuple; the *)
(* variables of the other part are left unchanged.                         *)
(***************************************************************************)
EXTENDS Integers, Naturals, Sequences, FiniteSets, TLC

(***************************************************************************)
(* Bounds                                                                  *)
(***************************************************************************)
\* number of active rows of npm.devices
NumDevices == 3
\* LIMIT of the device query (100 in the source), scaled down
BatchLimit == 2
\* settings.max_concurrent_polls (50 by default), scaled down
MaxConcurrent == 1

\* datagrams received in one run of the syslog collector
MaxMsgs == 3
\* datagrams received in one run during a database outage
MaxOutageMsgs == 21
\* process_message tasks alive at the same time
MaxInFlight == 2
\* SyslogCollector.batch_size (100 in the source), scaled down
batch_size == 2
\* failures of the source-statistics UPDATE in one run
MaxStatsFails == 1
\* rows of syslog.events preloaded before a cleanup pass
MaxRows == 4
\* days the clock advances during the cleanup runs
MaxTime == 3
\* LIMIT of the cleanup sub-select (100000 in the source), scaled down
OldestLimit == 2

\* max_rows of walk (100 by default, 200 for ifDescr), scaled down
max_rows == 3

\* interfaces a device reports
MaxInterfaces == 2

\* statements of a configuration handed to the STIG evaluator
MaxStatements == 2

\* ZIP files in the library folder at the same time
MaxZips == 2
\* ZIPs one indexer parses before the model stops scanning with it
MaxParsed == 3

\* the digits of a PRI field: \d{1,3} in the patterns of the syslog parser
MaxPriDigits == 3

\* polls that store interfaces
MaxPolls == 2

\* `self.batch_size * 10` in _flush_buffer_internal
RequeueFactor == 10

Devices == 1..NumDevices
Slots == 1..BatchLimit
MsgIds == 1..MaxOutageMsgs

\* last_poll IS NULL
NULL == 0

VARIABLES
    \* ---- Part I: poll scheduler ----
    poll_running, \* SNMPv3MetricsCollector._running
    loopPc,       \* position of _poll_loop
    last_poll,    \* npm.devices.last_poll, kept as a rank (NULL = 0)
    batch,        \* `devices` of the current _poll_all_devices call
    taskPc,       \* position of poll_with_limit(devices[i])
    taskTs,       \* collected_at of the poll in slot i (rank)
    semValue,     \* free slots of the cycle's asyncio.Semaphore
    inflight,     \* per device: _poll_device executions entered and not left
    polled,       \* devices whose _poll_device has ever been entered
    \* ---- Part II: syslog collector ----
    running,          \* SyslogCollector.running
    udp_open,         \* udp_transport is open
    nats_open,        \* the NATS connection is open
    db_open,          \* db_pool accepts acquire()
    event_buffer,     \* SyslogCollector.event_buffer (event ids)
    buffer_lock,      \* holder of SyslogCollector.buffer_lock
    lock_waiters,     \* FIFO of tasks waiting in buffer_lock.acquire()
    msgPc,            \* position of process_message for datagram id
    nextId,           \* datagrams received so far
    msgLimit,         \* datagrams the network delivers in this run
    recvAt,           \* event["received_at"] per event id (day)
    flushPc,          \* await at which _flush_buffer_internal is suspended
    flushEvents,      \* local `events` of _flush_buffer_internal
    source_id,        \* source_ids[ip] of the flush in progress
    events_table,     \* rows of syslog.events, in insertion order
    events_received,  \* syslog.sources.events_received
    flusherPc,        \* position of flush_buffer_periodically
    stopPc,           \* position of stop()
    flushFails,       \* flushes that ended in the except branch (0, 1, many)
    lastFlush,        \* outcome of the last flush that ended
    statsFails,       \* failures of the statistics UPDATE so far
    severity,         \* parsed.severity of the process_message task for id
    \* ---- syslog circular-buffer cleanup ----
    cleanupPc,            \* position of check_buffer_size_periodically
    settings_row,         \* syslog.buffer_settings WHERE id = 1
    current_size_bytes,   \* buffer_settings.current_size_bytes
    last_cleanup_at,      \* buffer_settings.last_cleanup_at
    passSize,             \* local current_size of _manage_buffer_size
    lastPass,             \* how the last cleanup pass ended
    deleted,              \* event ids removed by the last DELETE
    now,                  \* NOW(), in days
    \* ---- Part III: one device poll ----
    device,          \* the row of the device query handed to _poll_device
    devPc,           \* await at which _poll_device is suspended
    metrics,         \* local `metrics` (DeviceMetrics) of _poll_device
    interface_data,  \* local `interface_data`: oper_status per interface
    steps,           \* the steps of the poll that have run, in order
    snmp_sent,       \* an SNMP request has been sent to the device
    ping_outcome,    \* how the ping subprocess of this poll ended
    metrics_row,     \* the row of npm.device_metrics inserted by this poll
    devices_row,     \* the device's row of npm.devices
    \* ---- Part IV: SNMP walk ----
    walk_root,     \* parameter `oid` of walk
    current_oid,   \* local `current_oid`
    rows_fetched,  \* local `rows_fetched`
    results,       \* keys of the local dict `results`
    walkPc,        \* walk awaits next_cmd, or has returned
    \* ---- Part V: Juniper STIG evaluator ----
    config,        \* JuniperSTIGEvaluator.config, as JuniperConfigParser left it
    title,         \* title of the rule evaluated
    handler,       \* the _check_* methods that _run_check called
    check_result,  \* the (status, finding) it returned
    \* ---- Part VI: STIG library ----
    library,       \* the ZIP files in the library folder
    cache,         \* stig_library_index.json in the library folder
    catalog,       \* STIGLibraryIndexer.catalog
    stats,         \* STIGLibraryIndexer.stats
    parsed,        \* the ZIPs that the last operation handed to parse_zip
    ops,           \* the last two operations on the library
    before,        \* the catalog as the last operation found it
    \* ---- Part VII: syslog parser ----
    frame,           \* raw_message handed to parse_syslog_message
    parsed_message,  \* the ParsedSyslogMessage it returned
    \* ---- Part VIII: interface store ----
    npm_interfaces,         \* rows of npm.interfaces, in insertion order
    npm_interface_metrics,  \* rows of npm.interface_metrics
    store_call,             \* arguments of the last _store_interface_metrics
    interfaces_before,      \* npm.interfaces as that call found it
    metrics_before          \* npm.interface_metrics as that call found it

pollVars == <<poll_running, loopPc, last_poll, batch, taskPc, taskTs, semValue,
              inflight, polled>>

syslogVars == <<running, udp_open, nats_open, db_open, event_buffer,
                buffer_lock, lock_waiters, msgPc, nextId, msgLimit, recvAt,
                flushPc, flushEvents, source_id, events_table,
                events_received, flusherPc, stopPc, flushFails, lastFlush,
                statsFails, severity>>

cleanupVars == <<cleanupPc, settings_row, current_size_bytes, last_cleanup_at,
                 passSize, lastPass, deleted, now>>

deviceVars == <<device, devPc, metrics, interface_data, steps, snmp_sent,
                ping_outcome, metrics_row, devices_row>>

\* the variables of the parts that follow one unit of work
walkVars == <<walk_root, current_oid, rows_fetched, results, walkPc>>

stigVars == <<config, title, handler, check_result>>

libraryVars == <<library, cache, catalog, stats, parsed, ops, before>>

parserVars == <<frame, parsed_message>>

storeVars == <<npm_interfaces, npm_interface_metrics, store_call,
               interfaces_before, metrics_before>>

laterVars == <<libraryVars, parserVars, storeVars>>

unitVars == <<deviceVars, walkVars, stigVars, laterVars>>

vars == <<pollVars, syslogVars, cleanupVars, unitVars>>

(***************************************************************************)
(* Helpers                                                                 *)
(***************************************************************************)
Range(s) == {s[i] : i \in DOMAIN s}

Min(a, b) == IF a < b THEN a ELSE b

SetMax(S) == IF S = {} THEN 0 ELSE CHOOSE x \in S : \A y \in S : y <= x

\* sequences over S of length exactly n
SeqsOfLen(S, n) == [1..n -> S]

(***************************************************************************)
(* Part I: poll scheduler                                                  *)
(***************************************************************************)
\* positions of a poll_with_limit task inside `async with semaphore`
Holding == {"collect", "store", "update"}
Settled == {"done", "failed"}

\* Timestamps are observed by the code only through ORDER BY d.last_poll, so
\* they are kept as ranks: after every change the values in use are
\* renumbered 1..k in order (NULL stays 0).
UsedStamps(lp, ts) == ({lp[d] : d \in Devices} \cup {ts[i] : i \in Slots}) \ {NULL}

RankIn(U, v) == IF v = NULL THEN NULL ELSE Cardinality({u \in U : u < v}) + 1

\* the result set of
\*   SELECT ... FROM npm.devices d LEFT JOIN npm.snmpv3_credentials c ...
\*   WHERE d.is_active = true ORDER BY d.last_poll NULLS FIRST LIMIT 100
\* one row per device, ascending last_poll with NULL first, ties in any order
BatchCandidates(lp) ==
    LET n == Min(BatchLimit, NumDevices) IN
    {b \in SeqsOfLen(Devices, n) :
        /\ \A i, j \in 1..n : i # j => b[i] # b[j]
        /\ \A i, j \in 1..n : i < j => lp[b[i]] <= lp[b[j]]
        /\ \A i \in 1..n : \A d \in Devices \ Range(b) : lp[b[i]] <= lp[d]}

\* a semaphore that admits every task
SemLockedOff(v) == FALSE

\* asyncio.Semaphore.locked(): no free slot
SemLocked(v) == v = 0

\* the polls are started but not awaited
GatherSettledNoWait == TRUE

\* gather without return_exceptions over tasks that let the exception out:
\* it returns at the first failure
GatherSettledFirstError ==
    \/ \A i \in 1..Len(batch) : taskPc[i] \in Settled
    \/ \E i \in 1..Len(batch) : taskPc[i] = "failed"

\* asyncio.gather(..., return_exceptions=True) over tasks that swallow
\* Exception: it returns when every task has settled
GatherSettled == \A i \in 1..Len(batch) : taskPc[i] \in Settled

PollInit ==
    /\ poll_running = TRUE
    /\ loopPc = "check"
    /\ last_poll = [d \in Devices |-> NULL]
    /\ batch = <<>>
    /\ taskPc = [i \in Slots |-> "none"]
    /\ taskTs = [i \in Slots |-> NULL]
    /\ semValue = 0
    /\ inflight = [d \in Devices |-> 0]
    /\ polled = {}

\* _poll_loop: while self._running
LoopCheck ==
    /\ loopPc = "check"
    /\ loopPc' = IF poll_running THEN "fetch" ELSE "exit"
    /\ UNCHANGED <<poll_running, last_poll, batch, taskPc, taskTs, semValue,
                   inflight, polled>>
    /\ UNCHANGED <<syslogVars, cleanupVars, unitVars>>

\* _poll_all_devices: the device query succeeds; the semaphore is created and
\* one poll_with_limit task per row is handed to gather
FetchBatch ==
    /\ loopPc = "fetch"
    /\ \E b \in BatchCandidates(last_poll) :
        /\ batch' = b
        /\ taskPc' = [i \in Slots |-> IF i <= Len(b) THEN "wait" ELSE "none"]
    /\ taskTs' = [i \in Slots |-> NULL]
    /\ semValue' = MaxConcurrent
    /\ loopPc' = "gather"
    /\ UNCHANGED <<poll_running, last_poll, inflight, polled>>
    /\ UNCHANGED <<syslogVars, cleanupVars, unitVars>>

\* _poll_all_devices: the device query raises; _poll_loop logs and sleeps
FetchFail ==
    /\ loopPc = "fetch"
    /\ loopPc' = "sleep"
    /\ UNCHANGED <<poll_running, last_poll, batch, taskPc, taskTs, semValue,
                   inflight, polled>>
    /\ UNCHANGED <<syslogVars, cleanupVars, unitVars>>

\* poll_with_limit: `async with semaphore` admits the task, _poll_device is
\* entered and takes collected_at = now
TaskAcquire(i) ==
    /\ loopPc = "gather"
    /\ i <= Len(batch)
    /\ taskPc[i] = "wait"
    /\ ~SemLocked(semValue)
    /\ semValue' = semValue - 1
    /\ taskPc' = [taskPc EXCEPT ![i] = "collect"]
    /\ LET ts == [taskTs EXCEPT ![i] = SetMax(UsedStamps(last_poll, taskTs)) + 1]
           U == UsedStamps(last_poll, ts)
       IN  /\ taskTs' = [j \in Slots |-> RankIn(U, ts[j])]
           /\ last_poll' = [d \in Devices |-> RankIn(U, last_poll[d])]
    /\ inflight' = [inflight EXCEPT ![batch[i]] = @ + 1]
    /\ polled' = polled \cup {batch[i]}
    /\ UNCHANGED <<poll_running, loopPc, batch>>
    /\ UNCHANGED <<syslogVars, cleanupVars, unitVars>>

\* _poll_device: ICMP and SNMP collection finished, is_available computed
TaskCollect(i) ==
    /\ i <= Len(batch)
    /\ taskPc[i] = "collect"
    /\ taskPc' = [taskPc EXCEPT ![i] = "store"]
    /\ UNCHANGED <<poll_running, loopPc, last_poll, batch, taskTs, semValue,
                   inflight, polled>>
    /\ UNCHANGED <<syslogVars, cleanupVars, unitVars>>

\* _poll_device: await self._store_metrics(device_id, metrics)
TaskStore(i) ==
    /\ i <= Len(batch)
    /\ taskPc[i] = "store"
    /\ taskPc' = [taskPc EXCEPT ![i] = "update"]
    /\ UNCHANGED <<poll_running, loopPc, last_poll, batch, taskTs, semValue,
                   inflight, polled>>
    /\ UNCHANGED <<syslogVars, cleanupVars, unitVars>>

\* _poll_device: await self._update_device_status(...) sets last_poll to the
\* poll's timestamp; the task leaves `async with semaphore`
TaskUpdate(i) ==
    /\ i <= Len(batch)
    /\ taskPc[i] = "update"
    /\ taskPc' = [taskPc EXCEPT ![i] = "done"]
    /\ LET lp == [last_poll EXCEPT ![batch[i]] = taskTs[i]]
           ts == [taskTs EXCEPT ![i] = NULL]
           U == UsedStamps(lp, ts)
       IN  /\ last_poll' = [d \in Devices |-> RankIn(U, lp[d])]
           /\ taskTs' = [j \in Slots |-> RankIn(U, ts[j])]
    /\ semValue' = semValue + 1
    /\ inflight' = [inflight EXCEPT ![batch[i]] = @ - 1]
    /\ UNCHANGED <<poll_running, loopPc, batch, polled>>
    /\ UNCHANGED <<syslogVars, cleanupVars, unitVars>>

\* _poll_device raises (interface upsert, metrics insert or status update
\* fails): poll_with_limit logs poll_device_exception and leaves
\* `async with semaphore`; last_poll is not written
TaskRaise(i) ==
    /\ i <= Len(batch)
    /\ taskPc[i] \in Holding
    /\ taskPc' = [taskPc EXCEPT ![i] = "failed"]
    /\ LET ts == [taskTs EXCEPT ![i] = NULL]
           U == UsedStamps(last_poll, ts)
       IN  /\ last_poll' = [d \in Devices |-> RankIn(U, last_poll[d])]
           /\ taskTs' = [j \in Slots |-> RankIn(U, ts[j])]
    /\ semValue' = semValue + 1
    /\ inflight' = [inflight EXCEPT ![batch[i]] = @ - 1]
    /\ UNCHANGED <<poll_running, loopPc, batch, polled>>
    /\ UNCHANGED <<syslogVars, cleanupVars, unitVars>>

\* one step of the poll_with_limit task in slot i
TaskStep(i) ==
    \/ TaskAcquire(i)
    \/ TaskCollect(i)
    \/ TaskStore(i)
    \/ TaskUpdate(i)
    \/ TaskRaise(i)

\* gather returns, _poll_all_devices returns, the loop goes to its sleep
GatherDone ==
    /\ loopPc = "gather"
    /\ GatherSettled
    /\ loopPc' = "sleep"
    /\ UNCHANGED <<poll_running, last_poll, batch, taskPc, taskTs, semValue,
                   inflight, polled>>
    /\ UNCHANGED <<syslogVars, cleanupVars, unitVars>>

\* await asyncio.sleep(poll_interval) returns
SleepDone ==
    /\ loopPc = "sleep"
    /\ loopPc' = "check"
    /\ UNCHANGED <<poll_running, last_poll, batch, taskPc, taskTs, semValue,
                   inflight, polled>>
    /\ UNCHANGED <<syslogVars, cleanupVars, unitVars>>

\* the cancellation reaches only the polls that wait for the semaphore
CancelTargetsWaitingOnly == {i \in 1..Len(batch) : taskPc[i] = "wait"}

\* the polls a cancelled gather cancels: every awaitable handed to it that
\* has not completed (CancelledError is not an Exception, so neither
\* poll_with_limit nor anything inside _poll_device catches it)
CancelTargets == {i \in 1..Len(batch) : taskPc[i] \notin Settled}

\* stop(): self._running = False; self._poll_task.cancel(); the loop task is
\* cancelled at its await (the device query, the gather or the sleep), a
\* cancelled gather cancels its polls, and stop() returns once the task has
\* ended. A status UPDATE already sent (the set W) may still take effect.
PollerStop ==
    /\ poll_running
    /\ poll_running' = FALSE
    /\ loopPc' = "cancelled"
    /\ \E W \in SUBSET {i \in CancelTargets : taskPc[i] = "update"} :
         LET lp == [d \in Devices |->
                      IF \E i \in W : batch[i] = d
                      THEN taskTs[CHOOSE i \in W : batch[i] = d]
                      ELSE last_poll[d]]
             ts == [i \in Slots |-> IF i \in CancelTargets THEN NULL
                                     ELSE taskTs[i]]
             U == UsedStamps(lp, ts)
         IN  /\ last_poll' = [d \in Devices |-> RankIn(U, lp[d])]
             /\ taskTs' = [j \in Slots |-> RankIn(U, ts[j])]
    /\ taskPc' = [i \in Slots |-> IF i \in CancelTargets THEN "cancelled"
                                   ELSE taskPc[i]]
    /\ semValue' = semValue
                     + Cardinality({i \in CancelTargets : taskPc[i] \in Holding})
    /\ inflight' = [d \in Devices |->
                      IF \E i \in CancelTargets : batch[i] = d /\ taskPc[i] \in Holding
                      THEN inflight[d] - 1 ELSE inflight[d]]
    /\ UNCHANGED <<batch, polled>>
    /\ UNCHANGED <<syslogVars, cleanupVars, unitVars>>

LoopStep == LoopCheck \/ FetchBatch \/ FetchFail \/ GatherDone \/ SleepDone

PollNext ==
    \/ LoopCheck
    \/ FetchBatch
    \/ FetchFail
    \/ GatherDone
    \/ SleepDone
    \/ \E i \in Slots : TaskAcquire(i)
    \/ \E i \in Slots : TaskCollect(i)
    \/ \E i \in Slots : TaskStore(i)
    \/ \E i \in Slots : TaskUpdate(i)
    \/ \E i \in Slots : TaskRaise(i)

(***************************************************************************)
(* Part II: syslog collector                                               *)
(***************************************************************************)
\* identities of the tasks that take buffer_lock: a process_message task is
\* named by its datagram id, the others by the ids below
NoOne == 0
FlusherId == 0 - 1
StopId == 0 - 2

FlushAwaits == {"sources", "insert", "stats"}

\* the except branch of _flush_buffer_internal:
\*   if len(self.event_buffer) < self.batch_size * 10:
\*       self.event_buffer = events + self.event_buffer
Requeue(events, buf) ==
    IF Len(buf) < batch_size * RequeueFactor THEN events \o buf ELSE buf

\* the event is put in front of the buffer
AppendEventFront(buf, id) == <<id>> \o buf

\* self.event_buffer.append(event)
AppendEvent(buf, id) == Append(buf, id)

\* asyncio.Lock.acquire() returns at once only when the lock is free and
\* nobody is queued for it
LockFree == buffer_lock = NoOne /\ lock_waiters = <<>>

\* leaving `async with self.buffer_lock` without publishing first
LockKeptForPublish(h) == IF h \in MsgIds THEN h ELSE NoOne

\* leaving `async with self.buffer_lock`
LockAfterRelease(h) == NoOne

\* values of parsed.severity the senders use: the two around the alert
\* threshold
Severities == {3, 4}

\* no process_message task holds a parsed message for the id
NoSeverity == 0 - 1

\* `if parsed.severity <= 3:` of _publish_to_nats
IsAlert(sev) == sev <= 3

\* saturating count of failed flushes: 0, 1, 2 = more than one
CountUp(n) == IF n < 2 THEN n + 1 ELSE n

\* move task h to its next position
SetPc(h, m, f, s) ==
    /\ msgPc' = IF h \in MsgIds THEN [msgPc EXCEPT ![h] = m] ELSE msgPc
    /\ flusherPc' = IF h = FlusherId THEN f ELSE flusherPc
    /\ stopPc' = IF h = StopId THEN s ELSE stopPc

\* h leaves the lock and runs to its next await: process_message goes on to
\* _publish_to_nats, flush_buffer_periodically to its loop test, stop()
\* closes the UDP transport and awaits nats.close()
Leave(h) ==
    /\ buffer_lock' = LockAfterRelease(h)
    /\ SetPc(h, "publish", "check", "nats_close")
    /\ udp_open' = (udp_open /\ h # StopId)

\* h has the lock and buf is the buffer (after the append of a
\* process_message task). process_message flushes when len >= batch_size,
\* flush_buffer always; _flush_buffer_internal returns at once on an empty
\* buffer, otherwise it swaps the buffer and awaits the source lookup.
Critical(h, buf) ==
    IF buf # <<>> /\ (h \in MsgIds => Len(buf) >= batch_size)
    THEN /\ event_buffer' = <<>>
         /\ flushEvents' = buf
         /\ flushPc' = "sources"
         /\ buffer_lock' = h
         /\ SetPc(h, "flushing", "flushing", "flushing")
         /\ UNCHANGED udp_open
    ELSE /\ event_buffer' = buf
         /\ UNCHANGED <<flushEvents, flushPc>>
         /\ Leave(h)

\* `async with self.buffer_lock` reached by task h
TryLock(h, buf) ==
    IF LockFree
    THEN /\ Critical(h, buf)
         /\ UNCHANGED lock_waiters
    ELSE /\ lock_waiters' = Append(lock_waiters, h)
         /\ SetPc(h, "waitlock", "waitlock", "waitlock")
         /\ UNCHANGED <<event_buffer, flushEvents, flushPc, buffer_lock,
                        udp_open>>

\* _flush_buffer_internal returns to h, which leaves the lock
FlushEnd(h, outcome) ==
    /\ flushPc' = "idle"
    /\ flushEvents' = <<>>
    /\ source_id' = "unset"
    /\ lastFlush' = outcome
    /\ flushFails' = IF outcome = "failed" THEN CountUp(flushFails)
                     ELSE flushFails
    /\ Leave(h)

\* SyslogCollector.__init__ and start(), with k events already received,
\* flushed and stored (received on the days r) and n datagrams to come in all
SyslogStarted(k, r, n) ==
    /\ msgLimit = n
    /\ running = TRUE
    /\ udp_open = TRUE
    /\ nats_open = TRUE
    /\ db_open = TRUE
    /\ event_buffer = <<>>
    /\ buffer_lock = NoOne
    /\ lock_waiters = <<>>
    /\ msgPc = [i \in MsgIds |-> IF i <= k THEN "done" ELSE "none"]
    /\ nextId = k
    /\ recvAt = r
    /\ flushPc = "idle"
    /\ flushEvents = <<>>
    /\ source_id = "unset"
    /\ events_table = [i \in 1..k |-> i]
    /\ events_received = k
    /\ flusherPc = "check"
    /\ stopPc = "idle"
    /\ flushFails = 0
    /\ lastFlush = "none"
    /\ statsFails = 0
    /\ severity = [i \in MsgIds |-> NoSeverity]

\* SyslogUDPProtocol.datagram_received: create_task(process_message(...))
Receive ==
    /\ udp_open
    /\ nextId < msgLimit
    /\ Cardinality({i \in MsgIds : msgPc[i] \notin {"none", "done"}}) < MaxInFlight
    /\ nextId' = nextId + 1
    /\ msgPc' = [msgPc EXCEPT ![nextId + 1] = "created"]
    /\ UNCHANGED <<msgLimit, running, udp_open, nats_open, db_open, event_buffer,
                   buffer_lock, lock_waiters, recvAt, flushPc, flushEvents,
                   source_id, events_table, events_received, flusherPc,
                   stopPc, flushFails, lastFlush, statsFails>>
    /\ UNCHANGED <<severity, pollVars, cleanupVars, unitVars>>

\* process_message, first run of the task (tasks start in creation order):
\* decode, parse, build the event, then `async with self.buffer_lock`:
\* append, and flush when the buffer has reached batch_size
MsgStart(id) ==
    /\ msgPc[id] = "created"
    /\ \A j \in MsgIds : j < id => msgPc[j] # "created"
    /\ recvAt' = [recvAt EXCEPT ![id] = now]
    /\ \E sev \in Severities : severity' = [severity EXCEPT ![id] = sev]
    /\ TryLock(id, AppendEvent(event_buffer, id))
    /\ UNCHANGED <<running, nats_open, db_open, nextId, msgLimit, source_id,
                   events_table, events_received, flushFails, lastFlush,
                   statsFails>>
    /\ UNCHANGED <<pollVars, cleanupVars, unitVars>>

\* buffer_lock.acquire() returns for the first waiter after a release
LockGranted(h) ==
    /\ buffer_lock = NoOne
    /\ lock_waiters # <<>>
    /\ h = Head(lock_waiters)
    /\ lock_waiters' = Tail(lock_waiters)
    /\ Critical(h, IF h \in MsgIds THEN AppendEvent(event_buffer, h)
                   ELSE event_buffer)
    /\ UNCHANGED <<running, nats_open, db_open, nextId, msgLimit, recvAt, source_id,
                   events_table, events_received, flushFails, lastFlush,
                   statsFails>>
    /\ UNCHANGED <<severity, pollVars, cleanupVars, unitVars>>

\* _get_or_create_sources returns: the source row was found or created
\* ("id"), or its INSERT failed and the id is None ("none")
FlushSourcesOk ==
    /\ flushPc = "sources"
    /\ db_open
    /\ flushPc' = "insert"
    /\ source_id' \in {"id", "none"}
    /\ UNCHANGED <<running, udp_open, nats_open, db_open, event_buffer,
                   buffer_lock, lock_waiters, msgPc, nextId, msgLimit, recvAt,
                   flushEvents, events_table, events_received, flusherPc,
                   stopPc, flushFails, lastFlush, statsFails>>
    /\ UNCHANGED <<severity, pollVars, cleanupVars, unitVars>>

\* conn.executemany(INSERT INTO syslog.events ...) returns: one row per
\* event of `events`; the statistics UPDATE follows for a known source,
\* otherwise the flush is over
FlushInsertOk ==
    /\ flushPc = "insert"
    /\ db_open
    /\ events_table' = events_table \o flushEvents
    /\ IF source_id = "id"
       THEN /\ flushPc' = "stats"
            /\ UNCHANGED <<event_buffer, buffer_lock, msgPc, flushEvents,
                           source_id, flusherPc, stopPc, udp_open,
                           flushFails, lastFlush>>
       ELSE /\ FlushEnd(buffer_lock, "ok")
            /\ UNCHANGED event_buffer
    /\ UNCHANGED <<running, nats_open, db_open, lock_waiters, nextId, msgLimit, recvAt,
                   events_received, statsFails>>
    /\ UNCHANGED <<severity, pollVars, cleanupVars, unitVars>>

\* UPDATE syslog.sources SET events_received = events_received + count
\* returns; "Flushed events to database"
FlushStatsOk ==
    /\ flushPc = "stats"
    /\ events_received' = events_received + Len(flushEvents)
    /\ FlushEnd(buffer_lock, "ok")
    /\ UNCHANGED <<running, nats_open, db_open, event_buffer, lock_waiters,
                   nextId, msgLimit, recvAt, events_table, statsFails>>
    /\ UNCHANGED <<severity, pollVars, cleanupVars, unitVars>>

\* one of the awaits of the flush raises (always so for an acquire on a pool
\* that is closing): the except branch puts `events` back in front of the
\* buffer
FlushFail ==
    /\ flushPc \in FlushAwaits
    /\ flushPc = "stats" => statsFails < MaxStatsFails
    /\ statsFails' = IF flushPc = "stats" THEN statsFails + 1 ELSE statsFails
    /\ event_buffer' = Requeue(flushEvents, event_buffer)
    /\ FlushEnd(buffer_lock, "failed")
    /\ UNCHANGED <<running, nats_open, db_open, lock_waiters, nextId, msgLimit, recvAt,
                   events_table, events_received>>
    /\ UNCHANGED <<severity, pollVars, cleanupVars, unitVars>>

\* process_message returns: its locals are gone
MsgReturn(id) ==
    /\ msgPc' = [msgPc EXCEPT ![id] = "done"]
    /\ severity' = [severity EXCEPT ![id] = NoSeverity]

\* _publish_to_nats: nats.publish("syslog.events", ...) returns; for an alert
\* severity nats.publish("syslog.alerts.<severity>", ...) is awaited next,
\* otherwise _publish_to_nats and process_message return
MsgPublish(id) ==
    /\ msgPc[id] = "publish"
    /\ nats_open
    /\ IF IsAlert(severity[id])
       THEN /\ msgPc' = [msgPc EXCEPT ![id] = "alert"]
            /\ UNCHANGED severity
       ELSE MsgReturn(id)
    /\ UNCHANGED <<running, udp_open, nats_open, db_open, event_buffer,
                   buffer_lock, lock_waiters, nextId, msgLimit, recvAt, flushPc,
                   flushEvents, source_id, events_table, events_received,
                   flusherPc, stopPc, flushFails, lastFlush, statsFails>>
    /\ UNCHANGED <<pollVars, cleanupVars, unitVars>>

\* _publish_to_nats: nats.publish("syslog.alerts.<severity>", ...) returns
MsgAlert(id) ==
    /\ msgPc[id] = "alert"
    /\ nats_open
    /\ MsgReturn(id)
    /\ UNCHANGED <<running, udp_open, nats_open, db_open, event_buffer,
                   buffer_lock, lock_waiters, nextId, msgLimit, recvAt, flushPc,
                   flushEvents, source_id, events_table, events_received,
                   flusherPc, stopPc, flushFails, lastFlush, statsFails>>
    /\ UNCHANGED <<pollVars, cleanupVars, unitVars>>

\* _publish_to_nats: the pending nats.publish raises (connection closed by
\* stop(), outbound buffer full while the server is away); the one
\* `except Exception` of the function logs "Failed to publish to NATS" and
\* _publish_to_nats returns
MsgPublishRaise(id) ==
    /\ msgPc[id] \in {"publish", "alert"}
    /\ MsgReturn(id)
    /\ UNCHANGED <<running, udp_open, nats_open, db_open, event_buffer,
                   buffer_lock, lock_waiters, nextId, msgLimit, recvAt, flushPc,
                   flushEvents, source_id, events_table, events_received,
                   flusherPc, stopPc, flushFails, lastFlush, statsFails>>
    /\ UNCHANGED <<pollVars, cleanupVars, unitVars>>

\* flush_buffer_periodically: while self.running
FlusherCheck ==
    /\ flusherPc = "check"
    /\ flusherPc' = IF running THEN "sleep" ELSE "exit"
    /\ UNCHANGED <<running, udp_open, nats_open, db_open, event_buffer,
                   buffer_lock, lock_waiters, msgPc, nextId, msgLimit, recvAt, flushPc,
                   flushEvents, source_id, events_table, events_received,
                   stopPc, flushFails, lastFlush, statsFails>>
    /\ UNCHANGED <<severity, pollVars, cleanupVars, unitVars>>

\* flush_buffer_periodically: sleep(5) returns, flush_buffer() is called
FlusherWake ==
    /\ flusherPc = "sleep"
    /\ TryLock(FlusherId, event_buffer)
    /\ UNCHANGED <<running, nats_open, db_open, nextId, msgLimit, recvAt, source_id,
                   events_table, events_received, flushFails, lastFlush,
                   statsFails>>
    /\ UNCHANGED <<severity, pollVars, cleanupVars, unitVars>>

\* shutdown(): the signal handler clears collector.running
Shutdown ==
    /\ running
    /\ running' = FALSE
    /\ UNCHANGED <<udp_open, nats_open, db_open, event_buffer, buffer_lock,
                   lock_waiters, msgPc, nextId, msgLimit, recvAt, flushPc, flushEvents,
                   source_id, events_table, events_received, flusherPc,
                   stopPc, flushFails, lastFlush, statsFails>>
    /\ UNCHANGED <<severity, pollVars, cleanupVars, unitVars>>

\* main() leaves `while collector.running` and calls stop(), which calls
\* flush_buffer()
StopCall ==
    /\ ~running
    /\ stopPc = "idle"
    /\ TryLock(StopId, event_buffer)
    /\ UNCHANGED <<running, nats_open, db_open, nextId, msgLimit, recvAt, source_id,
                   events_table, events_received, flushFails, lastFlush,
                   statsFails>>
    /\ UNCHANGED <<severity, pollVars, cleanupVars, unitVars>>

\* stop(): nats.close() returns, db_pool.close() is called and the pool
\* refuses further acquires
StopNatsClosed ==
    /\ stopPc = "nats_close"
    /\ nats_open' = FALSE
    /\ db_open' = FALSE
    /\ stopPc' = "db_close"
    /\ UNCHANGED <<running, udp_open, event_buffer, buffer_lock, lock_waiters,
                   msgPc, nextId, msgLimit, recvAt, flushPc, flushEvents, source_id,
                   events_table, events_received, flusherPc, flushFails,
                   lastFlush, statsFails>>
    /\ UNCHANGED <<severity, pollVars, cleanupVars, unitVars>>

\* stop(): db_pool.close() returns once every connection has been released;
\* stop() returns
StopReturn ==
    /\ stopPc = "db_close"
    /\ flushPc = "idle"
    /\ stopPc' = "returned"
    /\ UNCHANGED <<running, udp_open, nats_open, db_open, event_buffer,
                   buffer_lock, lock_waiters, msgPc, nextId, msgLimit, recvAt, flushPc,
                   flushEvents, source_id, events_table, events_received,
                   flusherPc, flushFails, lastFlush, statsFails>>
    /\ UNCHANGED <<severity, pollVars, cleanupVars, unitVars>>

SyslogNext ==
    \/ Receive
    \/ \E id \in MsgIds : MsgStart(id)
    \/ \E h \in MsgIds \cup {FlusherId, StopId} : LockGranted(h)
    \/ FlushSourcesOk
    \/ FlushInsertOk
    \/ FlushStatsOk
    \/ FlushFail
    \/ \E id \in MsgIds : MsgPublish(id)
    \/ \E id \in MsgIds : MsgAlert(id)
    \/ \E id \in MsgIds : MsgPublishRaise(id)
    \/ FlusherCheck
    \/ FlusherWake
    \/ Shutdown
    \/ StopCall
    \/ StopNatsClosed
    \/ StopReturn

(***************************************************************************)
(* Syslog circular-buffer cleanup                                          *)
(***************************************************************************)
NoRow == [max_size_bytes |-> 0, cleanup_threshold_percent |-> 0,
          retention_days |-> 0]

\* contents of the singleton row of syslog.buffer_settings
SettingsRows ==
    [max_size_bytes : {2, 3}, cleanup_threshold_percent : {50, 100},
     retention_days : {1, 2}] \cup {NoRow}

\* pg_total_relation_size('syslog.events'), one unit per row
TableSize(t) == Len(t)

\* current_size > max_size_bytes * threshold_pct / 100
OverThreshold(size, row) ==
    size * 100 > row.max_size_bytes * row.cleanup_threshold_percent

\* received_at < NOW() - INTERVAL 'retention_days days'
Expired(id, t, days) == recvAt[id] < t - days

\* results of SELECT id FROM syslog.events ORDER BY received_at ASC LIMIT n
OldestIds(t, n) ==
    {X \in SUBSET Range(t) :
        /\ Cardinality(X) = Min(n, Cardinality(Range(t)))
        /\ \A x \in X : \A y \in Range(t) \ X : recvAt[x] <= recvAt[y]}

\* the DELETE removes every row whatever its age
DeleteSetsAll(t, days) == {Range(t)}

\* the row sets the DELETE of _manage_buffer_size can remove:
\*   WHERE received_at < NOW() - INTERVAL ... OR id IN (oldest rows)
DeleteSets(t, days) ==
    {{id \in Range(t) : Expired(id, now, days)} \cup X : X \in OldestIds(t, OldestLimit)}

Without(t, D) == LET Keep(x) == x \notin D IN SelectSeq(t, Keep)

\* nothing has been measured or cleaned yet
CleanupIdle ==
    /\ cleanupPc = "check"
    /\ current_size_bytes = 0
    /\ last_cleanup_at = 0 - 1
    /\ passSize = 0
    /\ lastPass = "none"
    /\ deleted = {}

\* check_buffer_size_periodically: while self.running
CleanupCheck ==
    /\ cleanupPc = "check"
    /\ cleanupPc' = IF running THEN "sleep" ELSE "exit"
    /\ UNCHANGED <<settings_row, current_size_bytes, last_cleanup_at,
                   passSize, lastPass, deleted, now>>
    /\ UNCHANGED <<pollVars, syslogVars, unitVars>>

\* sleep(buffer_check_interval) returns; _manage_buffer_size acquires a
\* connection and awaits the settings query
CleanupWake ==
    /\ cleanupPc = "sleep"
    /\ cleanupPc' = "settings"
    /\ deleted' = {}
    /\ lastPass' = "running"
    /\ UNCHANGED <<settings_row, current_size_bytes, last_cleanup_at,
                   passSize, now>>
    /\ UNCHANGED <<pollVars, syslogVars, unitVars>>

\* the settings query returns: without a row the pass returns
CleanupSettings ==
    /\ cleanupPc = "settings"
    /\ IF settings_row = NoRow
       THEN cleanupPc' = "check" /\ lastPass' = "nosettings"
       ELSE cleanupPc' = "size" /\ UNCHANGED lastPass
    /\ UNCHANGED <<settings_row, current_size_bytes, last_cleanup_at,
                   passSize, deleted, now>>
    /\ UNCHANGED <<pollVars, syslogVars, unitVars>>

\* SELECT pg_total_relation_size('syslog.events') returns
CleanupSize ==
    /\ cleanupPc = "size"
    /\ passSize' = TableSize(events_table)
    /\ cleanupPc' = "update"
    /\ UNCHANGED <<settings_row, current_size_bytes, last_cleanup_at,
                   lastPass, deleted, now>>
    /\ UNCHANGED <<pollVars, syslogVars, unitVars>>

\* UPDATE syslog.buffer_settings SET current_size_bytes = $1 returns; below
\* the threshold the pass is over
CleanupUpdate ==
    /\ cleanupPc = "update"
    /\ current_size_bytes' = passSize
    /\ IF OverThreshold(passSize, settings_row)
       THEN cleanupPc' = "delete" /\ UNCHANGED lastPass
       ELSE cleanupPc' = "check" /\ lastPass' = "completed"
    /\ UNCHANGED <<settings_row, last_cleanup_at, passSize, deleted, now>>
    /\ UNCHANGED <<pollVars, syslogVars, unitVars>>

\* DELETE FROM syslog.events WHERE ... returns
CleanupDelete ==
    /\ cleanupPc = "delete"
    /\ \E D \in DeleteSets(events_table, settings_row.retention_days) :
        /\ events_table' = Without(events_table, D)
        /\ deleted' = D
    /\ cleanupPc' = "stamp"
    /\ UNCHANGED <<settings_row, current_size_bytes, last_cleanup_at,
                   passSize, lastPass, now>>
    /\ UNCHANGED <<running, udp_open, nats_open, db_open, event_buffer,
                   buffer_lock, lock_waiters, msgPc, nextId, msgLimit, recvAt, flushPc,
                   flushEvents, source_id, events_received, flusherPc, stopPc,
                   flushFails, lastFlush, statsFails, severity>>
    /\ UNCHANGED <<pollVars, unitVars>>

\* UPDATE syslog.buffer_settings SET last_cleanup_at = NOW() returns;
\* "Buffer cleanup completed"
CleanupStamp ==
    /\ cleanupPc = "stamp"
    /\ last_cleanup_at' = now
    /\ cleanupPc' = "check"
    /\ lastPass' = "completed"
    /\ UNCHANGED <<settings_row, current_size_bytes, passSize, deleted, now>>
    /\ UNCHANGED <<pollVars, syslogVars, unitVars>>

\* a statement of the pass raises; "Failed to manage buffer size". The DELETE
\* is sent with one bind argument for a text that has no $1 placeholder
\* (INTERVAL '%s days'), which the database driver may refuse: that outcome
\* is this action at "delete".
CleanupRaise ==
    /\ cleanupPc \in {"settings", "size", "update", "delete", "stamp"}
    /\ cleanupPc' = "check"
    /\ lastPass' = "raised"
    /\ UNCHANGED <<settings_row, current_size_bytes, last_cleanup_at,
                   passSize, deleted, now>>
    /\ UNCHANGED <<pollVars, syslogVars, unitVars>>

\* a day passes
Tick ==
    /\ now < MaxTime
    /\ now' = now + 1
    /\ UNCHANGED <<cleanupPc, settings_row, current_size_bytes,
                   last_cleanup_at, passSize, lastPass, deleted>>
    /\ UNCHANGED <<pollVars, syslogVars, unitVars>>

CleanupNext ==
    \/ CleanupCheck
    \/ CleanupWake
    \/ CleanupSettings
    \/ CleanupSize
    \/ CleanupUpdate
    \/ CleanupDelete
    \/ CleanupStamp
    \/ CleanupRaise
    \/ Tick
    \/ Shutdown

\* received_at of the rows 1..k of an events table filled before the
\* cleanup runs: in id order, on days up to today t
PreloadedDays(k, t) ==
    {[i \in MsgIds |-> IF i <= k THEN f[i] ELSE 0] :
        f \in {g \in [1..k -> 0..t] : \A i, j \in 1..k : i < j => g[i] <= g[j]}}

(***************************************************************************)
(* Part III: one device poll (_poll_device)                                *)
(***************************************************************************)
\* Python's None, among numbers
None == 0 - 1

\* sysUpTime answers, in hundredths of a second
UptimeTicks == {50, 250}

\* values of ifOperStatus: up(1), down(2), another state, no answer
OperStatuses == {1, 2, 5, None}

\* rows of the device query: poll_snmp stands for
\* `device['poll_snmp'] and device['username']`, sophos for a vendor that
\* normalizes to "sophos", decrypt for the outcome of crypto.decrypt on the
\* stored passwords
DeviceRows ==
    [poll_icmp : BOOLEAN, poll_snmp : BOOLEAN, sophos : BOOLEAN,
     decrypt : {"ok", "failed"}]

\* how the ping subprocess can end: exit status 0, another exit status,
\* asyncio.TimeoutError from wait_for, any other exception inside the try
PingOutcomes == {"ok", "nonzero", "timeout", "error"}

ICMPResult(reachable, latency, loss) ==
    [raised |-> FALSE, reachable |-> reachable, latency_ms |-> latency,
     packet_loss_percent |-> loss]

\* the timeout of the subprocess leaves ping as an exception
pingTimeoutRaises(outcome, latency, loss) ==
    IF outcome = "ok" THEN ICMPResult(TRUE, latency, loss)
    ELSE IF outcome = "timeout"
    THEN [raised |-> TRUE, reachable |-> FALSE, latency_ms |-> None,
          packet_loss_percent |-> None]
    ELSE ICMPResult(FALSE, None, 100)

\* ICMPPoller.ping: latency and loss are what the regular expressions find
\* in the output of a ping that exited with status 0
ping(outcome, latency, loss) ==
    IF outcome = "ok" THEN ICMPResult(TRUE, latency, loss)
    ELSE ICMPResult(FALSE, None, 100)

\* DeviceMetrics(device_id, device_name, timestamp): the defaults of the model
FreshMetrics ==
    [icmp_reachable |-> "null", icmp_latency_ms |-> None,
     icmp_packet_loss_percent |-> None, uptime_seconds |-> None,
     cpu_utilization |-> None, memory_utilization |-> None,
     interface_count |-> 0, interface_up_count |-> 0,
     interface_down_count |-> 0, disk_utilization |-> None,
     services_status |-> None, is_available |-> FALSE]

\* no row
NoMetricsRow == [FreshMetrics EXCEPT !.icmp_reachable = "no row"]

\* SNMPv3Client.get: the request is not sent (building the user data or the
\* transport raised; the exception is swallowed), or it is sent and the
\* device answers with a value or not at all
GetOutcomes(values) ==
    {[sent |-> TRUE, value |-> v] : v \in values \cup {None}}
        \cup {[sent |-> FALSE, value |-> None]}

\* sum(1 for iface in interface_data if iface.get("oper_status") == st)
RECURSIVE CountStatus(_, _)
CountStatus(data, st) ==
    IF data = <<>> THEN 0
    ELSE (IF Head(data) = st THEN 1 ELSE 0) + CountStatus(Tail(data), st)

\* the device counts as available whenever sysUpTime was answered
AvailabilityAnyUptime(m) ==
    (m.icmp_reachable = "true") \/ (m.uptime_seconds # None)

\* metrics.is_available
Availability(m) ==
    (m.icmp_reachable = "true")
        \/ (m.uptime_seconds # None /\ m.uptime_seconds > 0)

\* the status update runs before the metrics insert
NextStepUpdateFirst(pc, dev, ifaces) ==
    CASE pc = "start" -> IF dev.poll_icmp THEN "icmp"
                         ELSE IF dev.poll_snmp THEN "uptime" ELSE "update"
      [] pc = "icmp" -> IF dev.poll_snmp THEN "uptime" ELSE "update"
      [] pc = "uptime" -> "cpu"
      [] pc = "cpu" -> "memory"
      [] pc = "memory" -> "ifnumber"
      [] pc = "ifnumber" -> "disk"
      [] pc = "disk" -> "walk"
      [] pc = "walk" -> IF ifaces THEN "ifstore"
                        ELSE IF dev.sophos THEN "sophos" ELSE "update"
      [] pc = "ifstore" -> IF dev.sophos THEN "sophos" ELSE "update"
      [] pc = "sophos" -> "update"
      [] pc = "update" -> "store"
      [] pc = "store" -> "done"

\* control flow of _poll_device: the await that follows the one at pc
\* (ifaces: `if interface_data:`)
NextStep(pc, dev, ifaces) ==
    CASE pc = "start" -> IF dev.poll_icmp THEN "icmp"
                         ELSE IF dev.poll_snmp THEN "uptime" ELSE "store"
      [] pc = "icmp" -> IF dev.poll_snmp THEN "uptime" ELSE "store"
      [] pc = "uptime" -> "cpu"
      [] pc = "cpu" -> "memory"
      [] pc = "memory" -> "ifnumber"
      [] pc = "ifnumber" -> "disk"
      [] pc = "disk" -> "walk"
      [] pc = "walk" -> IF ifaces THEN "ifstore"
                        ELSE IF dev.sophos THEN "sophos" ELSE "store"
      [] pc = "ifstore" -> IF dev.sophos THEN "sophos" ELSE "store"
      [] pc = "sophos" -> "store"
      [] pc = "store" -> "update"
      [] pc = "update" -> "done"

\* the poll runs on from the await at pc with metrics m to its next await;
\* is_available is computed when the SNMP section has been left
Advance(pc, m, ifaces) ==
    /\ devPc' = NextStep(pc, device, ifaces)
    /\ metrics' = IF pc \in {"store", "update"} THEN m
                  ELSE [m EXCEPT !.is_available = Availability(m)]
    /\ steps' = IF pc = "start" THEN steps ELSE Append(steps, pc)

\* _update_device_status: the values of the UPDATE of npm.devices
StatusUpdate(m) ==
    [status |-> IF m.is_available THEN "up" ELSE "down",
     icmp_status |-> IF m.icmp_reachable = "true" THEN "up" ELSE "down",
     snmp_status |-> IF m.uptime_seconds # None THEN "up" ELSE "unknown",
     last_poll |-> "this poll"]

\* _poll_device has been entered for the row dev and has run to its first
\* await
DeviceEntered(dev) ==
    /\ device = dev
    /\ devPc = NextStep("start", dev, FALSE)
    /\ metrics = [FreshMetrics EXCEPT !.is_available = Availability(FreshMetrics)]
    /\ interface_data = <<>>
    /\ steps = <<>>
    /\ snmp_sent = FALSE
    /\ ping_outcome = "none"
    /\ metrics_row = NoMetricsRow
    /\ devices_row = [status |-> "unknown", icmp_status |-> "unknown",
                      snmp_status |-> "unknown", last_poll |-> "earlier"]

\* icmp_poller.ping returns
DevPing ==
    /\ devPc = "icmp"
    /\ \E outcome \in PingOutcomes, latency \in {None, 1}, loss \in {0, 33} :
         LET r == ping(outcome, latency, loss) IN
         /\ ping_outcome' = outcome
         /\ IF r.raised
            THEN /\ devPc' = "failed"
                 /\ steps' = Append(steps, "icmp")
                 /\ UNCHANGED metrics
            ELSE Advance("icmp",
                     [metrics EXCEPT
                        !.icmp_reachable = IF r.reachable THEN "true" ELSE "false",
                        !.icmp_latency_ms = r.latency_ms,
                        !.icmp_packet_loss_percent = r.packet_loss_percent],
                     FALSE)
    /\ UNCHANGED <<device, interface_data, snmp_sent, metrics_row, devices_row>>
    /\ UNCHANGED <<pollVars, syslogVars, cleanupVars, walkVars, stigVars,
                   laterVars>>

\* an SNMP step at pc returns with the outcome g; field is what it makes of
\* the answer
SnmpStep(pc, g, m) ==
    /\ devPc = pc
    /\ snmp_sent' = (snmp_sent \/ g.sent)
    /\ Advance(pc, m, FALSE)
    /\ UNCHANGED <<device, interface_data, ping_outcome, metrics_row,
                   devices_row>>
    /\ UNCHANGED <<pollVars, syslogVars, cleanupVars, walkVars, stigVars,
                   laterVars>>

\* snmp_client.get(OID_SYS_UPTIME) returns:
\* metrics.uptime_seconds = int(uptime_raw) // 100
DevUptime ==
    \E g \in GetOutcomes(UptimeTicks) :
        SnmpStep("uptime", g,
                 IF g.value = None THEN metrics
                 ELSE [metrics EXCEPT !.uptime_seconds = g.value \div 100])

\* _get_cpu_metrics returns
DevCpu ==
    \E g \in GetOutcomes({50}) :
        SnmpStep("cpu", g,
                 IF g.value = None THEN metrics
                 ELSE [metrics EXCEPT !.cpu_utilization = g.value])

\* _get_memory_metrics returns
DevMemory ==
    \E g \in GetOutcomes({50}) :
        SnmpStep("memory", g,
                 IF g.value = None THEN metrics
                 ELSE [metrics EXCEPT !.memory_utilization = g.value])

\* snmp_client.get(OID_IF_NUMBER) returns:
\* metrics.interface_count = int(if_number)
DevIfNumber ==
    \E g \in GetOutcomes(0..MaxInterfaces) :
        SnmpStep("ifnumber", g,
                 IF g.value = None THEN metrics
                 ELSE [metrics EXCEPT !.interface_count = g.value])

\* _get_disk_metrics returns
DevDisk ==
    \E g \in GetOutcomes({50}) :
        SnmpStep("disk", g,
                 IF g.value = None THEN metrics
                 ELSE [metrics EXCEPT !.disk_utilization = g.value])

\* _get_interface_metrics returns the interfaces of the ifDescr walk, each
\* with the answer to its ifOperStatus GET; the summary counts are taken
\* from that list
DevWalk ==
    /\ devPc = "walk"
    /\ \E sent \in BOOLEAN, n \in 0..MaxInterfaces :
       \E data \in SeqsOfLen(OperStatuses, n) :
         /\ ~sent => data = <<>>
         /\ snmp_sent' = (snmp_sent \/ sent)
         /\ interface_data' = data
         /\ Advance("walk",
                IF data = <<>> THEN metrics
                ELSE [metrics EXCEPT
                        !.interface_up_count = CountStatus(data, 1),
                        !.interface_down_count = CountStatus(data, 2)],
                data # <<>>)
    /\ UNCHANGED <<device, ping_outcome, metrics_row, devices_row>>
    /\ UNCHANGED <<pollVars, syslogVars, cleanupVars, walkVars, stigVars,
                   laterVars>>

\* _store_interface_metrics returns
DevIfStore ==
    /\ devPc = "ifstore"
    /\ interface_data' = <<>>
    /\ Advance("ifstore", metrics, FALSE)
    /\ UNCHANGED <<device, snmp_sent, ping_outcome, metrics_row, devices_row>>
    /\ UNCHANGED <<pollVars, syslogVars, cleanupVars, walkVars, stigVars,
                   laterVars>>

\* _get_sophos_service_status returns
DevSophos ==
    \E g \in GetOutcomes({1}) :
        SnmpStep("sophos", g,
                 IF g.value = None THEN metrics
                 ELSE [metrics EXCEPT !.services_status = g.value])

\* _store_metrics returns: the INSERT INTO npm.device_metrics is done
DevStore ==
    /\ devPc = "store"
    /\ metrics_row' = metrics
    /\ Advance("store", metrics, FALSE)
    /\ UNCHANGED <<device, interface_data, snmp_sent, ping_outcome, devices_row>>
    /\ UNCHANGED <<pollVars, syslogVars, cleanupVars, walkVars, stigVars,
                   laterVars>>

\* _update_device_status returns: the UPDATE of npm.devices is done
DevUpdate ==
    /\ devPc = "update"
    /\ devices_row' = StatusUpdate(metrics)
    /\ Advance("update", metrics, FALSE)
    /\ UNCHANGED <<device, interface_data, snmp_sent, ping_outcome, metrics_row>>
    /\ UNCHANGED <<pollVars, syslogVars, cleanupVars, walkVars, stigVars,
                   laterVars>>

\* a database statement of the poll raises: nothing in _poll_device catches
\* it and the poll ends there
DevRaise ==
    /\ devPc \in {"ifstore", "store", "update"}
    /\ devPc' = "failed"
    /\ steps' = Append(steps, devPc)
    /\ UNCHANGED <<device, metrics, interface_data, snmp_sent, ping_outcome,
                   metrics_row, devices_row>>
    /\ UNCHANGED <<pollVars, syslogVars, cleanupVars, walkVars, stigVars,
                   laterVars>>

DeviceNext ==
    \/ DevPing
    \/ DevUptime
    \/ DevCpu
    \/ DevMemory
    \/ DevIfNumber
    \/ DevDisk
    \/ DevWalk
    \/ DevIfStore
    \/ DevSophos
    \/ DevStore
    \/ DevUpdate
    \/ DevRaise

(***************************************************************************)
(* Part IV: SNMP walk (SNMPv3Client.walk)                                  *)
(***************************************************************************)
\* An OID is a sequence of numbers; the code handles it as dotted text.
Components == {1, 2, 20}

\* the OIDs an agent can return: 1.a and 1.a.b
AgentOids ==
    {<<1>> \o t : t \in SeqsOfLen(Components, 1) \cup SeqsOfLen(Components, 2)}

\* the roots walked: 1.a
WalkRoots == {<<1>> \o t : t \in SeqsOfLen(Components, 1)}

DigitChar == <<"0", "1", "2", "3", "4", "5", "6", "7", "8", "9">>

\* str(n) for a number
RECURSIVE Decimal(_)
Decimal(n) ==
    IF n < 10 THEN <<DigitChar[n + 1]>>
    ELSE Decimal(n \div 10) \o <<DigitChar[(n % 10) + 1]>>

\* str(var_bind[0]): the dotted text of an OID, as a sequence of characters
RECURSIVE OidStr(_)
OidStr(o) ==
    IF Len(o) = 1 THEN Decimal(o[1])
    ELSE OidStr(SubSeq(o, 1, Len(o) - 1)) \o <<".">> \o Decimal(o[Len(o)])

\* str.startswith
startswith(s, prefix) ==
    Len(prefix) <= Len(s) /\ SubSeq(s, 1, Len(prefix)) = prefix

\* `oid_str.startswith(oid)` of walk
InTree(o, root) == startswith(OidStr(o), OidStr(root))

\* walk has been called for root and awaits its first next_cmd
WalkStarted(root) ==
    /\ walk_root = root
    /\ current_oid = root
    /\ rows_fetched = 0
    /\ results = {}
    /\ walkPc = "next"

\* next_cmd returns one variable binding, for the OID o
WalkAnswer(o) ==
    /\ walkPc = "next"
    /\ IF InTree(o, walk_root)
       THEN /\ results' = results \cup {o}
            /\ current_oid' = o
            /\ rows_fetched' = rows_fetched + 1
            /\ walkPc' = IF rows_fetched + 1 < max_rows THEN "next"
                         ELSE "returned"
       ELSE /\ walkPc' = "returned"
            /\ UNCHANGED <<results, current_oid, rows_fetched>>
    /\ UNCHANGED walk_root
    /\ UNCHANGED <<pollVars, syslogVars, cleanupVars, deviceVars, stigVars,
                   laterVars>>

\* next_cmd returns an error indication, an error status or no variable
\* binding, or it raises: the loop is left and the results so far returned
WalkBreak ==
    /\ walkPc = "next"
    /\ walkPc' = "returned"
    /\ UNCHANGED <<walk_root, results, current_oid, rows_fetched>>
    /\ UNCHANGED <<pollVars, syslogVars, cleanupVars, deviceVars, stigVars,
                   laterVars>>

WalkNext ==
    \/ \E o \in AgentOids : WalkAnswer(o)
    \/ WalkBreak

(***************************************************************************)
(* Part V: Juniper STIG evaluator (JuniperSTIGEvaluator)                   *)
(***************************************************************************)
\* A configuration text is a list of statements written in one of the two
\* JunOS notations: hierarchical (sections in braces, one block per
\* statement) or flat `set` commands (one line per statement).
ConfigStyles == {"hierarchical", "set"}

\* the statements a text is made of, in the order they appear in it
StatementOrder ==
    << "ssh",                         \* system services ssh
       "root-login deny",             \* system services ssh root-login deny
       "root-login allow",            \* system services ssh root-login allow
       "protocol-version v2",         \* system services ssh protocol-version v2
       "ciphers aes256-ctr",          \* system services ssh ciphers aes256-ctr
       "macs hmac-sha2-256",          \* system services ssh macs hmac-sha2-256
       "usm authentication-sha",      \* snmp v3 usm ... authentication-sha
       "usm authentication-md5",      \* snmp v3 usm ... authentication-md5
       "usm privacy-aes128",          \* snmp v3 usm ... privacy-aes128
       "usm privacy-des",             \* snmp v3 usm local-engine user admin privacy-des
       "community public",            \* snmp community public
       "ntp server",                  \* system ntp server 10.0.0.1
       "ntp authentication-key",      \* system ntp authentication-key 1
       "syslog host",                 \* system syslog host 10.0.0.2
       "security log mode",           \* security log mode stream
       "security log stream",         \* security log stream s1 severity info
       "then log",                    \* security policies global policy p then log
       "idle-timeout 5",              \* system login class ops idle-timeout 5
       "idle-timeout 60",             \* system login class ops idle-timeout 60
       "cli idle-timeout 10",         \* cli idle-timeout 10
       "authentication-order",        \* system authentication-order [ password ]
       "tacplus-server",              \* system tacplus-server 10.0.0.5 port 49
       "radius-server",               \* system radius-server 10.0.0.6 port 1812
       "screen ping-death",           \* security screen ids-option s1 icmp ping-death
       "screen alarm",                \* security screen ids-option s1 alarm-without-drop
       "zone screen",                 \* security zones security-zone untrust screen s1
       "default-policy deny-all",     \* security policies default-policy deny-all
       "default-policy permit-all",   \* security policies default-policy permit-all
       "from-zone policy",            \* security policies from-zone trust to-zone untrust policy p match source-address any
       "ike proposal",                \* security ike proposal p1 encryption-algorithm aes-256-cbc
       "ike gateway",                 \* security ike gateway g1 dh-group group14
       "ipsec vpn",                   \* security ipsec vpn v1 establish-tunnels immediately
       "idp active-policy",           \* security idp active-policy recommended
       "idp security-package",        \* security idp security-package automatic
       "login message",               \* system login message "Authorized use only"
       "retry-options backoff",       \* system login retry-options backoff-threshold 2
       "retry-options lockout-period" >>\* system login retry-options lockout-period 15

Statements == Range(StatementOrder)

SshStatements == {"root-login deny", "root-login allow", "protocol-version v2",
                  "ciphers aes256-ctr", "macs hmac-sha2-256"}

UsmStatements == {"usm authentication-sha", "usm authentication-md5",
                  "usm privacy-aes128", "usm privacy-des"}

\* the sets of at most n statements
RECURSIVE StatementSets(_)
StatementSets(n) ==
    IF n = 0 THEN {{}}
    ELSE LET smaller == StatementSets(n - 1)
         IN smaller \cup {S \cup {s} : S \in smaller, s \in Statements}

\* the texts handed to the parser
Contents == [style : ConfigStyles, statements : StatementSets(MaxStatements)]

EmptyContent == [style |-> "hierarchical", statements |-> {}]

\* The substrings of its text that the handlers search raw_content for (the
\* two regular expressions `protocol-version\s+v2` and, for _check_by_pattern,
\* `system\s+services\s+ssh` included).  In the hierarchical notation a
\* section name and its body are on different lines, so "snmp v3",
\* "security log", "cli idle-timeout" and "system services ssh" do not occur.
Substrings(s, style) ==
    CASE s = "ssh" ->
          {"services", "ssh"}
          \cup IF style = "set" THEN {"system services ssh"} ELSE {}
      [] s = "root-login deny" ->
          {"services", "ssh", "root-login deny", "login"}
          \cup IF style = "set" THEN {"system services ssh"} ELSE {}
      [] s = "root-login allow" ->
          {"services", "ssh", "login"}
          \cup IF style = "set" THEN {"system services ssh"} ELSE {}
      [] s = "protocol-version v2" ->
          {"services", "ssh", "protocol-version", "protocol-version v2"}
          \cup IF style = "set" THEN {"system services ssh"} ELSE {}
      [] s = "ciphers aes256-ctr" ->
          {"services", "ssh", "aes256"}
          \cup IF style = "set" THEN {"system services ssh"} ELSE {}
      [] s = "macs hmac-sha2-256" ->
          {"services", "ssh", "sha2"}
          \cup IF style = "set" THEN {"system services ssh"} ELSE {}
      [] s = "usm authentication-sha" ->
          IF style = "set" THEN {"snmp v3"} ELSE {}
      [] s = "usm authentication-md5" ->
          IF style = "set" THEN {"snmp v3"} ELSE {}
      [] s = "usm privacy-aes128" ->
          IF style = "set" THEN {"snmp v3"} ELSE {}
      [] s = "usm privacy-des" ->
          IF style = "set" THEN {"snmp v3"} ELSE {}
      [] s = "community public" ->
          {}
      [] s = "ntp server" ->
          {"ntp", "server"}
      [] s = "ntp authentication-key" ->
          {"ntp", "authentication-key"}
      [] s = "syslog host" ->
          {"syslog", "host"}
      [] s = "security log mode" ->
          IF style = "set" THEN {"security log"} ELSE {}
      [] s = "security log stream" ->
          IF style = "set" THEN {"security log"} ELSE {}
      [] s = "then log" ->
          {"then log"}
      [] s = "idle-timeout 5" ->
          {"idle-timeout", "login"}
      [] s = "idle-timeout 60" ->
          {"idle-timeout", "login"}
      [] s = "cli idle-timeout 10" ->
          {"idle-timeout"}
          \cup IF style = "set" THEN {"cli idle-timeout"} ELSE {}
      [] s = "authentication-order" ->
          {"authentication-order"}
      [] s = "tacplus-server" ->
          {"server", "tacplus"}
      [] s = "radius-server" ->
          {"server", "radius"}
      [] s = "screen ping-death" ->
          {"ping-death", "screen", "ids-option"}
      [] s = "screen alarm" ->
          {"screen", "ids-option"}
      [] s = "zone screen" ->
          {"screen", "security-zone"}
      [] s = "default-policy deny-all" ->
          {"default-policy", "deny-all"}
      [] s = "default-policy permit-all" ->
          {"default-policy", "permit-all"}
      [] s = "from-zone policy" ->
          {"from-zone", "to-zone"}
      [] s = "ike proposal" ->
          {"aes-256", "ike"}
      [] s = "ike gateway" ->
          {"group14", "ike"}
      [] s = "ipsec vpn" ->
          {"ipsec"}
      [] s = "idp active-policy" ->
          {"idp"}
      [] s = "idp security-package" ->
          {"idp"}
      [] s = "login message" ->
          {"message", "login"}
      [] s = "retry-options backoff" ->
          {"login", "retry-options", "backoff"}
      [] s = "retry-options lockout-period" ->
          {"login", "lockout-period", "retry-options"}

\* `needle in self.config.raw_content`
Contains(raw, needle) ==
    \E s \in raw.statements : needle \in Substrings(s, raw.style)

\* the number an idle-timeout statement carries
TimeoutOf(s) ==
    CASE s = "idle-timeout 5" -> 5
      [] s = "idle-timeout 60" -> 60
      [] s = "cli idle-timeout 10" -> 10
      [] OTHER -> None

\* re.search(r'idle-timeout\s+(\d+)', raw_content): the first match, or None
IdleTimeoutMatch(raw) ==
    LET at == {i \in DOMAIN StatementOrder :
                   /\ StatementOrder[i] \in raw.statements
                   /\ TimeoutOf(StatementOrder[i]) # None}
    IN IF at = {} THEN None
       ELSE TimeoutOf(StatementOrder[CHOOSE i \in at : \A j \in at : i <= j])

\* a parser that reads a `set` command the way it reads the same statement
\* inside its sections
InAnyLine(content, s) == s \in content.statements

\* the statement is a line inside its sections, so that _parse_line is
\* called with the path that _parse_system, _parse_security and _parse_snmp
\* look at
InSection(content, s) ==
    content.style = "hierarchical" /\ s \in content.statements

\* JuniperConfigParser.parse: only a line inside a section in braces has a
\* path, and without a path no line reaches _parse_system, _parse_security or
\* _parse_snmp; a text of `set` commands leaves every parsed field empty.
parse(content) ==
    LET has(s) == InSection(content, s)
        any(S) == \E s \in S : has(s)
    IN [raw_content |-> content,
        \* services["ssh"]
        ssh |-> [present |-> any(SshStatements),
                 protocol_version |->
                     IF has("protocol-version v2") THEN "v2" ELSE "",
                 \* the later line wins
                 root_login |->
                     IF has("root-login allow") THEN "allow"
                     ELSE IF has("root-login deny") THEN "deny" ELSE "",
                 ciphers |-> IF has("ciphers aes256-ctr") THEN "aes256-ctr"
                             ELSE "",
                 macs |-> IF has("macs hmac-sha2-256") THEN "hmac-sha2-256"
                          ELSE ""],
        snmp_v3 |-> [usm_configured |-> any(UsmStatements),
                     auth_sha |-> has("usm authentication-sha"),
                     auth_md5 |-> has("usm authentication-md5"),
                     privacy_aes |-> has("usm privacy-aes128"),
                     privacy_des |-> has("usm privacy-des")],
        \* len(snmp_communities)
        snmp_communities |-> IF has("community public") THEN 1 ELSE 0,
        ntp |-> [servers |-> has("ntp server"),
                 authentication |-> has("ntp authentication-key")],
        \* syslog["hosts"] is not empty
        syslog_hosts |-> has("syslog host"),
        security_log |->
            [present |-> any({"security log mode", "security log stream"}),
             streams |-> IF has("security log stream") THEN 1 ELSE 0],
        \* the "log" entries of security_policies["actions"]
        log_actions |-> IF has("then log") THEN 1 ELSE 0,
        \* the lists are not empty
        authentication_order |-> has("authentication-order"),
        tacplus_servers |-> has("tacplus-server"),
        radius_servers |-> has("radius-server"),
        \* security_screen["ids_enabled"]
        ids_enabled |-> any({"screen ping-death", "screen alarm"}),
        \* security_zones: the zone untrust, and its "screen" entry
        security_zones |-> has("zone screen"),
        zone_screen |-> has("zone screen"),
        \* security_policies["default_deny"]
        default_deny |-> has("default-policy deny-all"),
        \* security_ike, and "aes256" in str(security_ike): the proposal's
        \* value is written aes-256-cbc
        security_ike |-> [present |-> any({"ike proposal", "ike gateway"}),
                          aes256 |-> FALSE],
        security_ipsec |-> has("ipsec vpn"),
        security_idp |->
            [present |-> any({"idp active-policy", "idp security-package"}),
             active_policy |-> has("idp active-policy"),
             security_package |-> has("idp security-package")],
        \* login["banner"] is not empty
        banner |-> has("login message"),
        \* login["retry_options"], and "lockout_period" in its text
        retry_options |->
            [present |-> any({"retry-options backoff",
                              "retry-options lockout-period"}),
             lockout_period |-> has("retry-options lockout-period")]]

\* A finding is the list of lines joined by "\n"; a line is its text and
\* whether it ends in the check mark.
Line(text) == [text |-> text, mark |-> FALSE]

Marked(text) == [text |-> text, mark |-> TRUE]

\* findings.append(line) if the condition holds
When(cond, lines) == IF cond THEN lines ELSE <<>>

PASS(finding) == [status |-> "pass", finding |-> finding]

FAIL(finding) == [status |-> "fail", finding |-> finding]

NOT_APPLICABLE(finding) == [status |-> "not_applicable", finding |-> finding]

NOT_REVIEWED(finding) == [status |-> "not_reviewed", finding |-> finding]

\* `"\n".join(findings) if findings else default`, without the default
OrNothing(findings, default) == findings

\* `"\n".join(findings) if findings else default`
OrDefault(findings, default) ==
    IF findings # <<>> THEN findings ELSE <<Line(default)>>

\* the titles of the rules evaluated
Titles ==
    {
     "must use SSHv2",
     "must not permit root login via SSH",
     "SSH must use FIPS-approved ciphers",
     "must use SSH",
     "must use SNMPv3",
     "must restrict SNMP access",
     "must synchronize with an NTP server",
     "must authenticate NTP sources",
     "must send log data to a remote syslog server",
     "must generate audit records",
     "firewall policy must log denied traffic",
     "must use an authentication server",
     "must protect against flood attacks",
     "must enforce a default-deny policy",
     "must terminate idle sessions",
     "must set an idle timeout of 10 minutes",
     "must use IKE with AES256 encryption",
     "must enable IDP",
     "must display a banner",
     "must display a login banner",
     "must enforce account lockout" }

\* a rule of the benchmark: its title, check text and fix text
Rule(t, check_text, fix_text) ==
    [title |-> t, check_text |-> check_text, fix_text |-> fix_text]

Rules ==
    {Rule(t, "", "") : t \in Titles}
    \cup {Rule("must use a strong Diffie-Hellman group",
               "verify the ike proposal", ""),
          Rule("must limit concurrent connections",
               "show configuration system services",
               "set system services ssh connection-limit 10"),
          Rule("must limit concurrent connections",
               "show configuration system services", "")}

\* the keywords that occur in the lowered title or check text, among those
\* _determine_category, _run_check and the handlers look for
Keywords(text) ==
    CASE text = "must use SSHv2" ->
          {"ssh", "sshv2", "v2"}
      [] text = "" ->
          {}
      [] text = "must not permit root login via SSH" ->
          {"ssh", "log", "root"}
      [] text = "SSH must use FIPS-approved ciphers" ->
          {"ssh", "fips", "cipher"}
      [] text = "must use SSH" ->
          {"ssh"}
      [] text = "must use SNMPv3" ->
          {"snmp", "v3", "snmpv3"}
      [] text = "must restrict SNMP access" ->
          {"snmp"}
      [] text = "must synchronize with an NTP server" ->
          {"ntp"}
      [] text = "must authenticate NTP sources" ->
          {"ntp", "authenticat"}
      [] text = "must send log data to a remote syslog server" ->
          {"log", "syslog", "remote"}
      [] text = "must generate audit records" ->
          {"audit"}
      [] text = "firewall policy must log denied traffic" ->
          {"log", "policy", "firewall"}
      [] text = "must use an authentication server" ->
          {"authentication", "authenticat"}
      [] text = "must protect against flood attacks" ->
          {"protect", "attack"}
      [] text = "must enforce a default-deny policy" ->
          {"policy"}
      [] text = "must terminate idle sessions" ->
          {"idle", "session"}
      [] text = "must set an idle timeout of 10 minutes" ->
          {"time", "timeout", "idle"}
      [] text = "must use IKE with AES256 encryption" ->
          {"ike", "aes256", "encryption"}
      [] text = "must use a strong Diffie-Hellman group" ->
          {"diffie-hellman", "group"}
      [] text = "verify the ike proposal" ->
          {"ike"}
      [] text = "must enable IDP" ->
          {"idp"}
      [] text = "must display a banner" ->
          {"banner"}
      [] text = "must display a login banner" ->
          {"log", "banner"}
      [] text = "must enforce account lockout" ->
          {"lockout", "account"}
      [] text = "must limit concurrent connections" ->
          {}
      [] text = "show configuration system services" ->
          {}

\* `kw in title.lower()`
In(kw, text) == kw \in Keywords(text)

\* re.findall(r'set\s+([\w\-\s]+?)(?:\n|$|;)', fix_text.lower())[:5], each
\* cut to its first three words
set_patterns(fix_text) ==
    CASE fix_text = "" -> <<>>
      [] fix_text = "set system services ssh connection-limit 10" ->
             <<"system services ssh">>

\* _determine_category
determine_category(t, check_text) ==
    LET mentions(kws) == \E kw \in kws : In(kw, t) \/ In(kw, check_text)
    IN IF mentions({"vpn", "ike", "ipsec", "tunnel", "certificate"})
       THEN "VPN"
       ELSE IF mentions({"idp", "ids", "intrusion", "attack signature"})
       THEN "IDPS"
       ELSE IF mentions({"snmp", "ssh", "ntp", "syslog", "logging",
                         "authentication", "password", "account", "session",
                         "banner", "management"})
       THEN "NDM"
       ELSE "ALG"

\* the tests of _run_check, in their order, each with the handler it returns
Dispatch(category, t) ==
    << <<In("ssh", t) \/ In("sshv2", t), "_check_ssh">>,
       <<In("snmp", t), "_check_snmp">>,
       <<In("ntp", t) \/ In("time", t), "_check_ntp">>,
       <<In("log", t) \/ In("syslog", t) \/ In("audit", t), "_check_logging">>,
       <<In("authentication", t) \/ In("tacacs", t) \/ In("radius", t),
         "_check_authentication">>,
       <<In("screen", t) \/ (In("protect", t) /\ In("attack", t)),
         "_check_security_screen">>,
       <<In("policy", t) \/ In("zone", t), "_check_security_policy">>,
       <<In("timeout", t) \/ In("idle", t) \/ In("session", t),
         "_check_session_timeout">>,
       <<category = "VPN", "_check_vpn">>,
       <<category = "IDPS", "_check_idp">>,
       <<In("banner", t), "_check_banner">>,
       <<In("password", t) \/ In("lockout", t) \/ In("brute", t),
         "_check_password_policy">>,
       <<TRUE, "_check_by_pattern">> >>

\* the tests whose handler is called: the first that holds returns
TestsTaken(tests) ==
    {CHOOSE i \in DOMAIN tests :
         tests[i][1] /\ \A j \in DOMAIN tests : tests[j][1] => i <= j}

\* the call `self._check_...(check_text, fix_text, title)`, with the
\* handlers of JuniperSTIGEvaluator
Handler(name, conf, rule) ==
    LET
        \* _check_ssh
        check_ssh(cfg, t) ==
            LET raw == cfg.raw_content
                ssh == cfg.ssh
            IN IF ~ssh.present /\ ~(Contains(raw, "services") /\ Contains(raw, "ssh"))
               THEN FAIL(<<Line("SSH service not configured")>>)
               ELSE
               LET version ==
                       When(In("v2", t) \/ In("version 2", t) \/ In("sshv2", t),
                            IF ssh.protocol_version = "v2"
                            THEN <<Marked("SSH Protocol Version: v2")>>
                            ELSE <<Line("SSH Protocol Version: not explicitly set")>>
                                 \o (IF Contains(raw, "protocol-version v2")
                                     THEN <<Marked("protocol-version v2 found in config")>>
                                     ELSE IF ~Contains(raw, "protocol-version")
                                     THEN <<Line("Note: JunOS defaults to SSHv2")>>
                                     ELSE <<>>))
                   rootDenied == \/ ssh.root_login = "deny"
                                 \/ Contains(raw, "root-login deny")
                   root ==
                       When(In("root", t),
                            IF ssh.root_login = "deny"
                            THEN <<Marked("SSH root-login: deny")>>
                            ELSE IF Contains(raw, "root-login deny")
                            THEN <<Marked("SSH root-login deny found in config")>>
                            ELSE <<Line("SSH root-login is not set to deny")>>)
                   failed == In("root", t) /\ ~rootDenied
                   fips ==
                       When(In("fips", t) \/ In("cipher", t),
                            When(ssh.ciphers = "aes256-ctr" \/ Contains(raw, "aes256"),
                                 <<Marked("SSH ciphers include AES256")>>)
                            \o When(ssh.macs = "hmac-sha2-256" \/ Contains(raw, "sha2"),
                                    <<Marked("SSH MACs include SHA2")>>))
                   findings == version \o root \o fips
               IN IF failed THEN FAIL(findings)
                  ELSE PASS(OrDefault(findings, "SSH configuration appears compliant"))

        \* _check_snmp
        check_snmp(cfg, t) ==
            LET raw == cfg.raw_content
                v3 == cfg.snmp_v3
                auth == IF v3.auth_sha
                        THEN <<Marked("SNMPv3 uses SHA authentication")>>
                        ELSE When(v3.auth_md5,
                                  <<Line("SNMPv3 uses MD5 (should use SHA)")>>)
                priv == IF v3.privacy_aes
                        THEN <<Marked("SNMPv3 uses AES privacy")>>
                        ELSE When(v3.privacy_des,
                                  <<Line("SNMPv3 uses DES (should use AES)")>>)
                version ==
                    When(In("v3", t) \/ In("snmpv3", t),
                         IF v3.usm_configured
                         THEN <<Marked("SNMPv3 USM is configured")>> \o auth \o priv
                         ELSE IF Contains(raw, "snmp v3")
                         THEN <<Line("SNMPv3 configuration found in config")>>
                         ELSE <<Line("SNMPv3 not configured")>>)
                community ==
                    When(cfg.snmp_communities > 0,
                         <<Line("WARNING: SNMP community strings found (v1/v2c): 1 communities")>>)
                failed ==
                    \/ /\ In("v3", t) \/ In("snmpv3", t)
                       /\ \/ v3.usm_configured /\ ~v3.auth_sha /\ v3.auth_md5
                          \/ v3.usm_configured /\ ~v3.privacy_aes /\ v3.privacy_des
                          \/ ~v3.usm_configured /\ ~Contains(raw, "snmp v3")
                    \/ cfg.snmp_communities > 0 /\ In("v3", t)
                findings == version \o community
            IN IF failed THEN FAIL(findings)
               ELSE PASS(OrDefault(findings,
                                   "SNMP configuration not detected (may be disabled)"))

        \* _check_ntp
        check_ntp(cfg, t) ==
            LET raw == cfg.raw_content
                servers ==
                    IF cfg.ntp.servers
                    THEN <<Marked("NTP servers configured: 10.0.0.1")>>
                    ELSE <<Marked("NTP server configuration found in config")>>
                authentication ==
                    When(In("authenticat", t),
                         IF cfg.ntp.authentication
                         THEN <<Marked("NTP authentication is configured")>>
                         ELSE IF Contains(raw, "authentication-key")
                         THEN <<Marked("NTP authentication-key found in config")>>
                         ELSE <<Line("NTP authentication not explicitly configured")>>)
            IN IF ~cfg.ntp.servers /\ ~(Contains(raw, "ntp") /\ Contains(raw, "server"))
               THEN FAIL(<<Line("No NTP servers configured")>>)
               ELSE PASS(servers \o authentication)

        \* _check_logging
        check_logging(cfg, t) ==
            LET raw == cfg.raw_content
                noHosts == /\ ~cfg.syslog_hosts
                           /\ ~(Contains(raw, "syslog") /\ Contains(raw, "host"))
                hosts ==
                    IF cfg.syslog_hosts
                    THEN <<Marked("Syslog servers configured: 10.0.0.2")>>
                    ELSE IF ~noHosts
                    THEN <<Marked("Syslog host configuration found in config")>>
                    ELSE <<Line("No remote syslog servers configured")>>
                failed == noHosts /\ (In("centralized", t) \/ In("remote", t))
                security ==
                    IF cfg.security_log.present
                    THEN <<Marked("Security logging is configured")>>
                         \o When(cfg.security_log.streams > 0,
                                 <<Marked("Security log streams configured: 1")>>)
                    ELSE When(Contains(raw, "security log"),
                              <<Marked("Security log configuration found in config")>>)
                policies ==
                    When(In("policy", t) \/ In("firewall", t),
                         When(cfg.log_actions > 0,
                              <<Marked("Policy logging actions found: 1")>>)
                         \o When(Contains(raw, "then log"),
                                 <<Marked("Policy 'then log' statements found in config")>>))
                findings == hosts \o security \o policies
            IN IF failed THEN FAIL(findings)
               ELSE PASS(OrDefault(findings, "Logging configuration review needed"))

        \* _check_authentication
        check_authentication(cfg, t) ==
            LET raw == cfg.raw_content
                order ==
                    IF cfg.authentication_order
                    THEN <<Marked("Authentication order: password")>>
                    ELSE When(Contains(raw, "authentication-order"),
                              <<Marked("Authentication order configured")>>)
                tacplus ==
                    IF cfg.tacplus_servers
                    THEN <<Marked("TACACS+ servers: 10.0.0.5")>>
                    ELSE When(Contains(raw, "tacplus"),
                              <<Marked("TACACS+ configuration found")>>)
                radius ==
                    IF cfg.radius_servers
                    THEN <<Marked("RADIUS servers: 10.0.0.6")>>
                    ELSE When(Contains(raw, "radius"),
                              <<Marked("RADIUS configuration found")>>)
                findings == order \o tacplus \o radius
            IN IF findings = <<>>
               THEN FAIL(<<Line("No centralized authentication configured")>>)
               ELSE PASS(findings)

        \* the dict `protections` of _check_security_screen, in its order
        protections ==
            << <<"syn-flood", "SYN flood protection">>,
               <<"ping-death", "Ping of death protection">>,
               <<"land", "LAND attack protection">>,
               <<"tear-drop", "Teardrop protection">>,
               <<"spoofing", "IP spoofing protection">>,
               <<"source-route", "Source route protection">>,
               <<"winnuke", "WinNuke protection">> >>

        \* the lines its loop appends for the first n protections
        RECURSIVE ProtectionLines(_, _)
        ProtectionLines(raw, n) ==
            IF n = 0 THEN <<>>
            ELSE ProtectionLines(raw, n - 1)
                 \o When(Contains(raw, protections[n][1]),
                         <<Marked(protections[n][2])>>)

        \* _check_security_screen
        check_security_screen(cfg, t) ==
            LET raw == cfg.raw_content
                findings ==
                    When(cfg.ids_enabled,
                         <<Marked("Security screen IDS option configured")>>)
                    \o ProtectionLines(raw, Len(protections))
                    \o When(cfg.zone_screen,
                            <<Marked("Screen applied to zone 'untrust': s1")>>)
            IN IF findings # <<>> THEN PASS(findings)
               ELSE IF Contains(raw, "screen") /\ Contains(raw, "ids-option")
               THEN PASS(<<Line("Security screen configuration found in config")>>)
               ELSE FAIL(<<Line("No security screens configured")>>)

        \* _check_security_policy
        check_security_policy(cfg, t) ==
            LET raw == cfg.raw_content
                default == Contains(raw, "default-policy")
                denyAll == default /\ Contains(raw, "deny-all")
                policy ==
                    IF cfg.default_deny THEN <<Marked("Default policy: deny-all")>>
                    ELSE When(denyAll, <<Marked("Default deny-all policy found")>>)
                zones ==
                    IF cfg.security_zones
                    THEN <<Marked("Security zones configured: untrust")>>
                    ELSE When(Contains(raw, "security-zone"),
                              <<Marked("Security zones found in config")>>)
                between ==
                    When(Contains(raw, "from-zone") /\ Contains(raw, "to-zone"),
                         <<Marked("Zone-to-zone policies configured")>>)
                findings == policy \o zones \o between
            IN IF ~cfg.default_deny /\ ~denyAll
                  /\ default /\ Contains(raw, "permit-all")
               THEN FAIL(<<Line("WARNING: Default permit-all policy found")>>)
               ELSE IF findings = <<>>
               THEN NOT_REVIEWED(
                        <<Line("Security policy configuration needs manual review")>>)
               ELSE PASS(findings)

        \* f"Idle timeout configured: {timeout} minutes"
        TimeoutLine(timeout) ==
            CASE timeout = 5 -> Line("Idle timeout configured: 5 minutes")
              [] timeout = 10 -> Line("Idle timeout configured: 10 minutes")
              [] timeout = 60 -> Line("Idle timeout configured: 60 minutes")

        \* _check_session_timeout
        check_session_timeout(cfg, t) ==
            LET raw == cfg.raw_content
                timeout == IdleTimeoutMatch(raw)
                idle ==
                    When(Contains(raw, "idle-timeout") /\ timeout # None,
                         <<TimeoutLine(timeout),
                           IF timeout <= 10
                           THEN Marked("Timeout is 10 minutes or less")
                           ELSE Line("WARNING: Timeout exceeds 10 minutes")>>)
                cli == When(Contains(raw, "cli idle-timeout"),
                            <<Marked("CLI idle-timeout configured")>>)
                findings == idle \o cli
            IN IF findings = <<>>
               THEN FAIL(<<Line("No session timeout configuration found")>>)
               ELSE PASS(findings)

        \* _check_vpn
        check_vpn(cfg, t) ==
            LET raw == cfg.raw_content
                ike ==
                    IF cfg.security_ike.present
                    THEN When(In("aes256", t) \/ In("encryption", t),
                              When(\/ cfg.security_ike.aes256
                                   \/ Contains(raw, "aes-256"),
                                   <<Marked("IKE AES-256 encryption found")>>))
                         \o When(In("diffie-hellman", t) \/ In("group", t),
                                 When(\/ Contains(raw, "group14")
                                      \/ Contains(raw, "group19")
                                      \/ Contains(raw, "group20"),
                                      <<Marked("Strong DH group configured")>>))
                         \o <<Marked("IKE configuration found")>>
                    ELSE When(Contains(raw, "ike"),
                              <<Line("IKE configuration found in config")>>)
                ipsec ==
                    IF cfg.security_ipsec THEN <<Marked("IPsec configuration found")>>
                    ELSE When(Contains(raw, "ipsec"),
                              <<Line("IPsec configuration found in config")>>)
                findings == ike \o ipsec
            IN IF findings = <<>>
               THEN NOT_APPLICABLE(<<Line("VPN not configured on this device")>>)
               ELSE PASS(findings)

        \* _check_idp
        check_idp(cfg, t) ==
            LET raw == cfg.raw_content
                idp == cfg.security_idp
            IN IF idp.present
               THEN PASS(When(idp.active_policy,
                              <<Marked("IDP active policy: recommended")>>)
                         \o When(idp.security_package,
                                 <<Marked("IDP security package configured")>>)
                         \o <<Marked("IDP configuration found")>>)
               ELSE IF Contains(raw, "idp")
               THEN PASS(<<Line("IDP configuration found in config")>>)
               ELSE NOT_APPLICABLE(<<Line("IDP not configured on this device")>>)

        \* _check_banner
        check_banner(cfg, t) ==
            LET raw == cfg.raw_content
            IN IF cfg.banner
               THEN PASS(<<Line("Login banner configured: 'Authorized use only...'")>>)
               ELSE IF Contains(raw, "message") /\ Contains(raw, "login")
               THEN PASS(<<Marked("Login message/banner found in config")>>)
               ELSE FAIL(<<Line("No login banner configured")>>)

        \* _check_password_policy
        check_password_policy(cfg, t) ==
            LET raw == cfg.raw_content
                retry ==
                    When(cfg.retry_options.present,
                         <<Marked("Login retry options configured")>>
                         \o When(\/ cfg.retry_options.lockout_period
                                 \/ Contains(raw, "lockout-period"),
                                 <<Marked("Account lockout period configured")>>))
                findings ==
                    retry
                    \o When(Contains(raw, "retry-options"),
                            <<Marked("Retry options found in config")>>)
                    \o When(Contains(raw, "backoff"),
                            <<Marked("Login backoff configured")>>)
            IN IF findings = <<>>
               THEN FAIL(<<Line("No password/lockout policy found")>>)
               ELSE PASS(findings)

        \* f"Pattern found: {' '.join(pattern_words)}... "
        PatternLine(pattern) ==
            CASE pattern = "system services ssh" ->
                     Marked("Pattern found: system services ssh...")

        \* the lines the loop of _check_by_pattern appends for the first n patterns
        RECURSIVE PatternLines(_, _, _)
        PatternLines(raw, patterns, n) ==
            IF n = 0 THEN <<>>
            ELSE PatternLines(raw, patterns, n - 1)
                 \o When(Contains(raw, patterns[n]), <<PatternLine(patterns[n])>>)

        \* _check_by_pattern
        check_by_pattern(cfg, check_text, fix_text) ==
            LET patterns == set_patterns(fix_text)
                findings == PatternLines(cfg.raw_content, patterns, Len(patterns))
            IN IF findings # <<>> THEN PASS(findings)
               ELSE NOT_REVIEWED(<<Line("Manual review required - automated check not available for this rule")>>)
    IN CASE name = "_check_ssh" -> check_ssh(conf, rule.title)
         [] name = "_check_snmp" -> check_snmp(conf, rule.title)
         [] name = "_check_ntp" -> check_ntp(conf, rule.title)
         [] name = "_check_logging" -> check_logging(conf, rule.title)
         [] name = "_check_authentication" ->
                check_authentication(conf, rule.title)
         [] name = "_check_security_screen" ->
                check_security_screen(conf, rule.title)
         [] name = "_check_security_policy" ->
                check_security_policy(conf, rule.title)
         [] name = "_check_session_timeout" ->
                check_session_timeout(conf, rule.title)
         [] name = "_check_vpn" -> check_vpn(conf, rule.title)
         [] name = "_check_idp" -> check_idp(conf, rule.title)
         [] name = "_check_banner" -> check_banner(conf, rule.title)
         [] name = "_check_password_policy" ->
                check_password_policy(conf, rule.title)
         [] name = "_check_by_pattern" ->
                check_by_pattern(conf, rule.check_text, rule.fix_text)

\* _run_check: the handlers called, and the (status, finding) returned
run_check(cfg, category, rule) ==
    LET tests == Dispatch(category, rule.title)
        taken == TestsTaken(tests)
        last == CHOOSE i \in taken : \A j \in taken : j <= i
    IN [called |-> {tests[i][2] : i \in taken},
        result |-> Handler(tests[last][2], cfg, rule)]

NoResult == [status |-> "none", finding |-> <<>>]

\* JuniperSTIGEvaluator(parser.parse(content)) has been created
EvaluatorCreated(content) ==
    /\ config = parse(content)
    /\ title = ""
    /\ handler = {}
    /\ check_result = NoResult

\* evaluate_rule, for one rule of the benchmark
EvaluateRule(rule) ==
    /\ check_result = NoResult
    /\ LET category == determine_category(rule.title, rule.check_text)
           ran == run_check(config, category, rule)
       IN /\ handler' = ran.called
          /\ check_result' = ran.result
    /\ title' = rule.title
    /\ UNCHANGED config
    /\ UNCHANGED <<pollVars, syslogVars, cleanupVars, deviceVars, walkVars,
                   laterVars>>

StigNext == \E rule \in Rules : EvaluateRule(rule)

(***************************************************************************)
(* Part VI: STIG library (STIGCatalog, STIGLibraryIndexer)                 *)
(***************************************************************************)
\* the members of Platform that the benchmarks below are classified as
Platforms == {"linux", "redhat", "cisco_ios", "juniper_srx"}

\* rows of PLATFORM_MAPPINGS, in the order of the table
PLATFORM_MAPPINGS ==
    << <<"rhel_9", <<"redhat">> >>,
       <<"almalinux", <<"linux", "redhat">> >>,
       <<"cisco_ios", <<"cisco_ios">> >>,
       <<"cisco_ios-xe", <<"cisco_ios">> >>,
       <<"juniper_srx", <<"juniper_srx">> >> >>

\* the ZIP archives that may lie in the library folder, in the order in which
\* library_path.glob("**/*.zip") lists them
ZipOrder ==
    << "U_AlmaLinux_OS_9_V1R1_STIG.zip",
       "U_Cisco_IOS-XE_Router_NDM_V3R1_STIG.zip",
       "U_RHEL_9_V2R1_STIG.zip",
       "U_RHEL_9_V2R2_STIG.zip",
       "U_STIG_Viewer_3-x.zip" >>

ZipFiles == Range(ZipOrder)

\* the XCCDF benchmark inside a ZIP; the viewer archive holds none
Benchmark(zip) ==
    CASE zip = "U_AlmaLinux_OS_9_V1R1_STIG.zip" ->
             [benchmark_id |-> "AlmaLinux_OS_9_STIG", release |-> 1,
              ccis |-> {"CCI-000366"}]
      [] zip = "U_Cisco_IOS-XE_Router_NDM_V3R1_STIG.zip" ->
             [benchmark_id |-> "Cisco_IOS-XE_Router_NDM_STIG", release |-> 1,
              ccis |-> {"CCI-000213", "CCI-000366"}]
      [] zip = "U_RHEL_9_V2R1_STIG.zip" ->
             [benchmark_id |-> "RHEL_9_STIG", release |-> 1,
              ccis |-> {"CCI-000366"}]
      [] zip = "U_RHEL_9_V2R2_STIG.zip" ->
             [benchmark_id |-> "RHEL_9_STIG", release |-> 2,
              ccis |-> {"CCI-000213"}]
      [] OTHER -> [benchmark_id |-> "", release |-> 0, ccis |-> {}]

\* `keyword in benchmark_id.lower()`
InBenchmarkId(keyword, benchmark_id) ==
    CASE benchmark_id = "AlmaLinux_OS_9_STIG" -> keyword = "almalinux"
      [] benchmark_id = "Cisco_IOS-XE_Router_NDM_STIG" ->
             keyword \in {"cisco_ios", "cisco_ios-xe"}
      [] benchmark_id = "RHEL_9_STIG" -> keyword = "rhel_9"
      [] OTHER -> FALSE

RECURSIVE Extend(_, _)
\* list.extend without repeating a member
Extend(list, more) ==
    IF more = <<>> THEN list
    ELSE Extend(IF Head(more) \in Range(list) THEN list
                ELSE Append(list, Head(more)), Tail(more))

RECURSIVE detect_platforms(_, _)
\* the platforms of the rows of PLATFORM_MAPPINGS, from row i on, whose
\* keyword the benchmark id holds
detect_platforms(benchmark_id, i) ==
    IF i > Len(PLATFORM_MAPPINGS) THEN <<>>
    ELSE LET rest == detect_platforms(benchmark_id, i + 1)
         IN IF InBenchmarkId(PLATFORM_MAPPINGS[i][1], benchmark_id)
            THEN Extend(PLATFORM_MAPPINGS[i][2], rest)
            ELSE rest

NoEntry == [benchmark_id |-> ""]

\* XCCDFParser.parse_zip: the STIGEntry of the ZIP, or None
parse_zip(zip) ==
    LET benchmark == Benchmark(zip)
    IN IF benchmark.benchmark_id = "" THEN NoEntry
       ELSE [benchmark_id |-> benchmark.benchmark_id,
             release |-> benchmark.release,
             zip_filename |-> zip,
             platforms |-> detect_platforms(benchmark.benchmark_id, 1),
             ccis |-> benchmark.ccis]

\* STIGCatalog(): _entries in insertion order, _platform_index
STIGCatalog ==
    [entries |-> <<>>, platform_index |-> [p \in Platforms |-> <<>>]]

\* where _entries holds the benchmark id (0: it does not)
Position(entries, benchmark_id) ==
    IF \E i \in DOMAIN entries : entries[i].benchmark_id = benchmark_id
    THEN CHOOSE i \in DOMAIN entries : entries[i].benchmark_id = benchmark_id
    ELSE 0

\* STIGCatalog.add_entry
add_entry(cat, entry) ==
    LET pos == Position(cat.entries, entry.benchmark_id)
    IN [entries |-> IF pos = 0 THEN Append(cat.entries, entry)
                    ELSE [cat.entries EXCEPT ![pos] = entry],
        platform_index |->
            [p \in Platforms |->
                IF /\ p \in Range(entry.platforms)
                   /\ entry.benchmark_id \notin Range(cat.platform_index[p])
                THEN Append(cat.platform_index[p], entry.benchmark_id)
                ELSE cat.platform_index[p]]]

\* STIGCatalog.get_by_platform
get_by_platform(cat, platform) ==
    LET stig_ids == SelectSeq(cat.platform_index[platform],
                        LAMBDA sid : Position(cat.entries, sid) # 0)
    IN [i \in DOMAIN stig_ids |->
           cat.entries[Position(cat.entries, stig_ids[i])]]

\* STIGCatalog.search(platform = platform)
search(cat, platform) ==
    SelectSeq(cat.entries, LAMBDA e : platform \in Range(e.platforms))

\* the orders in which list(a set) may enumerate it
ListsOf(S) ==
    {list \in [1..Cardinality(S) -> S] : Range(list) = S}

\* STIGEntry.to_dict: the CCIs become a list
EntryDicts(entry) ==
    {[entry EXCEPT !.ccis = list] : list \in ListsOf(entry.ccis)}

\* STIGEntry.from_dict: the CCIs become a set again
EntryFromDict(data) == [data EXCEPT !.ccis = Range(data.ccis)]

RECURSIVE CatalogDicts(_)
\* STIGCatalog.to_dict: the "entries" list, one dict per entry
CatalogDicts(entries) ==
    IF entries = <<>> THEN {<<>>}
    ELSE {<<first>> \o rest : first \in EntryDicts(Head(entries)),
                              rest \in CatalogDicts(Tail(entries))}

RECURSIVE CatalogFromDict(_, _)
\* STIGCatalog.from_dict: add_entry for each dict of the list, from i on
CatalogFromDict(data, i) ==
    IF i = 0 THEN STIGCatalog
    ELSE add_entry(CatalogFromDict(data, i - 1), EntryFromDict(data[i]))

NoStats == [total_zips |-> 0, parsed_ok |-> 0, parse_errors |-> 0]

\* the cache file is not there
NoCache == [present |-> FALSE]

\* zip_files of scan: the ZIPs of the folder in glob order
zip_files(folder) == SelectSeq(ZipOrder, LAMBDA zip : zip \in folder)

RECURSIVE ScanLoop(_, _, _, _)
\* the for loop of scan over zip_files, from file i on
ScanLoop(files, i, cat, st) ==
    IF i > Len(files) THEN [catalog |-> cat, stats |-> st]
    ELSE LET entry == parse_zip(files[i])
         IN IF entry # NoEntry
            THEN ScanLoop(files, i + 1, add_entry(cat, entry),
                          [st EXCEPT !.parsed_ok = @ + 1])
            ELSE ScanLoop(files, i + 1, cat,
                          [st EXCEPT !.parse_errors = @ + 1])

\* STIGLibraryIndexer.scan, as a function of the indexer's state
scan(folder, cat, st) ==
    LET files == zip_files(folder)
    IN ScanLoop(files, 1, cat, [st EXCEPT !.total_zips = Len(files)])

\* the saved files that save_cache may write
CacheFiles(cat, st) ==
    {[present |-> TRUE, stats |-> st, entries |-> data] :
        data \in CatalogDicts(cat.entries)}

\* STIGLibraryIndexer(library_path) has been created
IndexerCreated(folder, file) ==
    /\ library = folder
    /\ cache = file
    /\ catalog = STIGCatalog
    /\ stats = NoStats
    /\ parsed = <<>>
    /\ ops = <<>>
    /\ before = STIGCatalog

\* the last two operations
Ops(op) == IF ops = <<>> THEN <<op>> ELSE <<ops[Len(ops)], op>>

\* room for one more scan within MaxParsed
MayScan(st) == st.parsed_ok + st.parse_errors + Cardinality(library) <= MaxParsed

\* indexer.scan()
Scan ==
    /\ MayScan(stats)
    /\ LET done == scan(library, catalog, stats)
       IN /\ catalog' = done.catalog
          /\ stats' = done.stats
    /\ parsed' = zip_files(library)
    /\ ops' = Ops("scan")
    /\ before' = catalog
    /\ UNCHANGED <<library, cache>>
    /\ UNCHANGED <<pollVars, syslogVars, cleanupVars, deviceVars, walkVars,
                   stigVars, parserVars, storeVars>>

\* get_or_scan on an indexer whose catalog and stats are cat and st
GetOrScanFrom(force_rescan, cat, st) ==
    IF ~force_rescan /\ cache.present
    THEN \* load_cache
         /\ catalog' = CatalogFromDict(cache.entries, Len(cache.entries))
         /\ stats' = cache.stats
         /\ parsed' = <<>>
         /\ ops' = Ops("load")
         /\ UNCHANGED cache
    ELSE \* scan, then save_cache
         /\ MayScan(st)
         /\ LET done == scan(library, cat, st)
            IN /\ catalog' = done.catalog
               /\ stats' = done.stats
               /\ cache' \in CacheFiles(done.catalog, done.stats)
         /\ parsed' = zip_files(library)
         /\ ops' = Ops(IF force_rescan THEN "rescan" ELSE "scan")

\* indexer.get_or_scan(force_rescan), as rescan_library calls it
GetOrScan(force_rescan) ==
    /\ GetOrScanFrom(force_rescan, catalog, stats)
    /\ before' = catalog
    /\ UNCHANGED library
    /\ UNCHANGED <<pollVars, syslogVars, cleanupVars, deviceVars, walkVars,
                   stigVars, parserVars, storeVars>>

\* initialize_library: a new indexer, then get_or_scan
InitializeLibrary(force_rescan) ==
    /\ GetOrScanFrom(force_rescan, STIGCatalog, NoStats)
    /\ before' = catalog
    /\ UNCHANGED library
    /\ UNCHANGED <<pollVars, syslogVars, cleanupVars, deviceVars, walkVars,
                   stigVars, parserVars, storeVars>>

\* a ZIP is copied into the library folder
ZipAdded(zip) ==
    /\ zip \notin library
    /\ Cardinality(library) < MaxZips
    /\ library' = library \cup {zip}
    /\ ops' = Ops("folder")
    /\ UNCHANGED <<cache, catalog, stats, parsed, before>>
    /\ UNCHANGED <<pollVars, syslogVars, cleanupVars, deviceVars, walkVars,
                   stigVars, parserVars, storeVars>>

\* a ZIP is removed from the library folder
ZipRemoved(zip) ==
    /\ zip \in library
    /\ library' = library \ {zip}
    /\ ops' = Ops("folder")
    /\ UNCHANGED <<cache, catalog, stats, parsed, before>>
    /\ UNCHANGED <<pollVars, syslogVars, cleanupVars, deviceVars, walkVars,
                   stigVars, parserVars, storeVars>>

LibraryNext ==
    \/ Scan
    \/ \E force_rescan \in BOOLEAN : GetOrScan(force_rescan)
    \/ \E force_rescan \in BOOLEAN : InitializeLibrary(force_rescan)
    \/ \E zip \in ZipFiles : ZipAdded(zip)
    \/ \E zip \in ZipFiles : ZipRemoved(zip)

\* STIGCatalog.add_entry, called by the catalog's user
AddEntry(entry) ==
    /\ catalog' = add_entry(catalog, entry)
    /\ ops' = Ops("add_entry")
    /\ before' = catalog
    /\ UNCHANGED <<library, cache, stats, parsed>>
    /\ UNCHANGED <<pollVars, syslogVars, cleanupVars, deviceVars, walkVars,
                   stigVars, parserVars, storeVars>>

\* the entries handed to add_entry: each benchmark with each platform list
EntriesToAdd ==
    {[benchmark_id |-> id, release |-> 1, zip_filename |-> "",
      platforms |-> list, ccis |-> {}] :
        id \in {"RHEL_9_STIG", "Cisco_IOS-XE_Router_NDM_STIG"},
        list \in {<<>>, <<"redhat">>, <<"linux", "redhat">>,
                  <<"cisco_ios">>}}

CatalogNext == \E entry \in EntriesToAdd : AddEntry(entry)

(***************************************************************************)
(* Part VII: syslog parser (apps/syslog/.../parser.py)                     *)
(***************************************************************************)
\* Python's None, among strings
NoneText == "None"

DEVICE_TYPE_PATTERNS ==
    <<<<"(?i)cisco", "cisco">>,
       <<"(?i)juniper|junos", "juniper">>,
       <<"(?i)paloalto|pan-os", "paloalto">>,
       <<"(?i)fortinet|fortigate", "fortinet">>,
       <<"(?i)f5|bigip", "f5">>,
       <<"(?i)arista", "arista">>,
       <<"(?i)hp|procurve|aruba", "hp">>,
       <<"(?i)mellanox", "mellanox">>,
       <<"(?i)vmware|esxi|vcenter", "vmware">>,
       <<"(?i)linux|ubuntu|centos|rhel|debian", "linux">>,
       <<"(?i)windows|microsoft", "windows">>,
       <<"(?i)pfsense", "pfsense">>>>

EVENT_TYPE_PATTERNS ==
    <<<<"(?i)login|logon|auth|ssh|session.*open", "authentication">>,
       <<"(?i)logout|logoff|session.*close", "logout">>,
       <<"(?i)fail|denied|reject|block", "security_alert">>,
       <<"(?i)interface.*(up|down)|link.*(up|down)", "link_state">>,
       <<"(?i)error|err|fail|critical", "error">>,
       <<"(?i)warn|warning", "warning">>,
       <<"(?i)config|configuration|change", "configuration">>,
       <<"(?i)bgp|ospf|eigrp|routing", "routing">>,
       <<"(?i)cpu|memory|disk|utilization", "performance">>,
       <<"(?i)backup|restore|snapshot", "backup">>,
       <<"(?i)firewall|acl|rule|policy", "firewall">>,
       <<"(?i)certificate|ssl|tls", "certificate">>>>

\* the strings of the frames below in which re.search finds the pattern
Matching(pattern) ==
    CASE pattern = "(?i)cisco" ->
             {"1 2003-10-11T22:14:15.003Z cisco-core1 sshd 4711 - - Configuration committed\nby admin",
              "Mar  1 09:00:00 cisco-core1 sshd[4711]: Failed password for admin from 10.0.0.5",
              "cisco-core1"}
      [] pattern = "(?i)juniper|junos" ->
             {"JUNOS login failed for user root"}
      [] pattern = "(?i)paloalto|pan-os" ->
             {}
      [] pattern = "(?i)fortinet|fortigate" ->
             {}
      [] pattern = "(?i)f5|bigip" ->
             {}
      [] pattern = "(?i)arista" ->
             {}
      [] pattern = "(?i)hp|procurve|aruba" ->
             {}
      [] pattern = "(?i)mellanox" ->
             {}
      [] pattern = "(?i)vmware|esxi|vcenter" ->
             {}
      [] pattern = "(?i)linux|ubuntu|centos|rhel|debian" ->
             {}
      [] pattern = "(?i)windows|microsoft" ->
             {}
      [] pattern = "(?i)pfsense" ->
             {}
      [] pattern = "(?i)login|logon|auth|ssh|session.*open" ->
             {"1 2003-10-11T22:14:15.003Z cisco-core1 sshd 4711 - - Configuration committed\nby admin",
              "JUNOS login failed for user root",
              "Mar  1 09:00:00 cisco-core1 sshd[4711]: Failed password for admin from 10.0.0.5",
              "sshd[4711]: Configuration committed\nby admin",
              "sshd[4711]: Failed password for admin from 10.0.0.5"}
      [] pattern = "(?i)logout|logoff|session.*close" ->
             {}
      [] pattern = "(?i)fail|denied|reject|block" ->
             {"'su root' failed for lonvick",
              "1 2003-10-11T22:14:15.003Z host.example.com su - ID47 - 'su root' failed for lonvick",
              "Failed password for admin from 10.0.0.5",
              "JUNOS login failed for user root",
              "Mar  1 09:00:00 cisco-core1 sshd[4711]: Failed password for admin from 10.0.0.5",
              "sshd[4711]: Failed password for admin from 10.0.0.5",
              "su[-]: 'su root' failed for lonvick"}
      [] pattern = "(?i)interface.*(up|down)|link.*(up|down)" ->
             {"%LINK-3-UPDOWN: Interface GigabitEthernet0/1, changed state to down",
              "-[-]: Interface GigabitEthernet0/1, changed state to down",
              "1 2003-10-11T22:14:15.003Z - - - - - Interface GigabitEthernet0/1, changed state to down",
              "1 interface down",
              "Interface GigabitEthernet0/1, changed state to down",
              "Mar  1 09:00:00 rtr1 %LINK-3-UPDOWN: Interface GigabitEthernet0/1, changed state to down",
              "Mar  1 09:00:00 rtr1 Interface GigabitEthernet0/1, changed state to down",
              "interface down"}
      [] pattern = "(?i)error|err|fail|critical" ->
             {"'su root' failed for lonvick",
              "1 2003-10-11T22:14:15.003Z host.example.com su - ID47 - 'su root' failed for lonvick",
              "Failed password for admin from 10.0.0.5",
              "JUNOS login failed for user root",
              "Mar  1 09:00:00 cisco-core1 sshd[4711]: Failed password for admin from 10.0.0.5",
              "sshd[4711]: Failed password for admin from 10.0.0.5",
              "su[-]: 'su root' failed for lonvick"}
      [] pattern = "(?i)warn|warning" ->
             {}
      [] pattern = "(?i)config|configuration|change" ->
             {"%LINK-3-UPDOWN: Interface GigabitEthernet0/1, changed state to down",
              "%SYS-5-CONFIG_I: Configuration committed\nby admin",
              "-[-]: Interface GigabitEthernet0/1, changed state to down",
              "1 2003-10-11T22:14:15.003Z - - - - - Interface GigabitEthernet0/1, changed state to down",
              "1 2003-10-11T22:14:15.003Z cisco-core1 sshd 4711 - - Configuration committed\nby admin",
              "Configuration committed\nby admin",
              "Interface GigabitEthernet0/1, changed state to down",
              "Mar  1 09:00:00 rtr1 %LINK-3-UPDOWN: Interface GigabitEthernet0/1, changed state to down",
              "Mar  1 09:00:00 rtr1 %SYS-5-CONFIG_I: Configuration committed\nby admin",
              "Mar  1 09:00:00 rtr1 Interface GigabitEthernet0/1, changed state to down",
              "sshd[4711]: Configuration committed\nby admin"}
      [] pattern = "(?i)bgp|ospf|eigrp|routing" ->
             {}
      [] pattern = "(?i)cpu|memory|disk|utilization" ->
             {}
      [] pattern = "(?i)backup|restore|snapshot" ->
             {}
      [] pattern = "(?i)firewall|acl|rule|policy" ->
             {}
      [] pattern = "(?i)certificate|ssl|tls" ->
             {}
      [] OTHER -> {}

\* the strings that hold a line break
Multiline ==
    {"%SYS-5-CONFIG_I: Configuration committed\nby admin",
     "1 2003-10-11T22:14:15.003Z cisco-core1 sshd 4711 - - Configuration committed\nby admin",
     "Configuration committed\nby admin",
     "Mar  1 09:00:00 rtr1 %SYS-5-CONFIG_I: Configuration committed\nby admin",
     "sshd[4711]: Configuration committed\nby admin"}

Bodies ==
    {[header |-> "rfc3164", hostname |-> "rtr1", app_name |-> "%LINK-3-UPDOWN",
      proc_id |-> "", msg_id |-> "",
      text |-> "Interface GigabitEthernet0/1, changed state to down"],
     [header |-> "rfc3164", hostname |-> "cisco-core1", app_name |-> "sshd",
      proc_id |-> "4711", msg_id |-> "",
      text |-> "Failed password for admin from 10.0.0.5"],
     [header |-> "rfc3164", hostname |-> "rtr1", app_name |-> "",
      proc_id |-> "", msg_id |-> "",
      text |-> "Interface GigabitEthernet0/1, changed state to down"],
     [header |-> "rfc3164", hostname |-> "rtr1", app_name |-> "%SYS-5-CONFIG_I",
      proc_id |-> "", msg_id |-> "",
      text |-> "Configuration committed\nby admin"],
     [header |-> "rfc5424", hostname |-> "host.example.com", app_name |-> "su",
      proc_id |-> "-", msg_id |-> "ID47",
      text |-> "'su root' failed for lonvick"],
     [header |-> "rfc5424", hostname |-> "-", app_name |-> "-",
      proc_id |-> "-", msg_id |-> "-",
      text |-> "Interface GigabitEthernet0/1, changed state to down"],
     [header |-> "rfc5424", hostname |-> "cisco-core1", app_name |-> "sshd",
      proc_id |-> "4711", msg_id |-> "-",
      text |-> "Configuration committed\nby admin"],
     [header |-> "version", hostname |-> "", app_name |-> "",
      proc_id |-> "", msg_id |-> "",
      text |-> "interface down"],
     [header |-> "none", hostname |-> "", app_name |-> "",
      proc_id |-> "", msg_id |-> "",
      text |-> "Interface GigabitEthernet0/1, changed state to down"],
     [header |-> "none", hostname |-> "", app_name |-> "",
      proc_id |-> "", msg_id |-> "",
      text |-> "Failed password for admin from 10.0.0.5"],
     [header |-> "none", hostname |-> "", app_name |-> "",
      proc_id |-> "", msg_id |-> "",
      text |-> "Configuration committed\nby admin"],
     [header |-> "none", hostname |-> "", app_name |-> "",
      proc_id |-> "", msg_id |-> "",
      text |-> "JUNOS login failed for user root"]}

\* the digits of a PRI field
Digits == 0..9

\* what stands before the body of a frame: "<", some digits and ">", or
\* nothing of the kind
Pris ==
    {[bracket |-> TRUE, digits |-> ds] :
        ds \in UNION {[1..n -> Digits] : n \in 0..MaxPriDigits}}
    \cup {[bracket |-> TRUE, digits |-> <<1, 8, 9, 0>>],
          [bracket |-> FALSE, digits |-> <<>>]}

\* the datagrams handed to parse_syslog_message
Frames == [pri : Pris, body : Bodies]

DigitText(d) ==
    CASE d = 0 -> "0" [] d = 1 -> "1" [] d = 2 -> "2" [] d = 3 -> "3"
      [] d = 4 -> "4" [] d = 5 -> "5" [] d = 6 -> "6" [] d = 7 -> "7"
      [] d = 8 -> "8" [] d = 9 -> "9"

RECURSIVE DigitsText(_)
DigitsText(ds) ==
    IF ds = <<>> THEN "" ELSE DigitText(Head(ds)) \o DigitsText(Tail(ds))

\* the text of the frame up to the body
PriText(pri) ==
    IF pri.bracket THEN "<" \o DigitsText(pri.digits) \o ">" ELSE ""

\* TAG[PID]: MESSAGE, TAG: MESSAGE or MESSAGE
Rest(body) ==
    IF body.app_name = "" THEN body.text
    ELSE body.app_name
         \o (IF body.proc_id = "" THEN "" ELSE "[" \o body.proc_id \o "]")
         \o ": " \o body.text

\* the text of the frame after the PRI field
AfterPri(body) ==
    CASE body.header = "rfc3164" ->
             "Mar  1 09:00:00 " \o body.hostname \o " " \o Rest(body)
      [] body.header = "rfc5424" ->
             "1 2003-10-11T22:14:15.003Z " \o body.hostname \o " "
             \o body.app_name \o " " \o body.proc_id \o " " \o body.msg_id
             \o " - " \o body.text
      [] body.header = "version" -> "1 " \o body.text
      [] OTHER -> body.text

\* raw_message, as the pieces it is the concatenation of
Raw(f) == <<PriText(f.pri), AfterPri(f.body)>>

\* ^<(\d{1,3})> matches
PriMatches(pri) == pri.bracket /\ Len(pri.digits) \in 1..MaxPriDigits

\* (.*)$ matches the text up to the end of the frame
DotStarToEnd(text) == text \notin Multiline

RECURSIVE int(_)
\* int(pri_str)
int(ds) ==
    IF ds = <<>> THEN 0
    ELSE 10 * int(SubSeq(ds, 1, Len(ds) - 1)) + ds[Len(ds)]

\* parse_priority: pri >> 3 and pri & 0x07
parse_priority(pri_str) ==
    [facility |-> int(pri_str) \div 8, severity |-> int(pri_str) % 8]

\* re.search(pattern, text), text given as the pieces it is made of
Search(pattern, pieces) ==
    \E i \in DOMAIN pieces : pieces[i] \in Matching(pattern)

\* the result of the last pattern of the list that the text holds
LastMatch(patterns, pieces) ==
    IF \E i \in DOMAIN patterns : Search(patterns[i][1], pieces)
    THEN patterns[CHOOSE i \in DOMAIN patterns :
                      /\ Search(patterns[i][1], pieces)
                      /\ \A j \in (i + 1)..Len(patterns) :
                             ~Search(patterns[j][1], pieces)][2]
    ELSE NoneText

\* the result of the first pattern of the list that the text holds
FirstMatch(patterns, pieces) ==
    IF \E i \in DOMAIN patterns : Search(patterns[i][1], pieces)
    THEN patterns[CHOOSE i \in DOMAIN patterns :
                      /\ Search(patterns[i][1], pieces)
                      /\ \A j \in 1..(i - 1) : ~Search(patterns[j][1], pieces)][2]
    ELSE NoneText

\* detect_device_type: over f"{hostname or ''} {message}"
detect_device_type(message, hostname) ==
    FirstMatch(DEVICE_TYPE_PATTERNS,
               <<IF hostname = NoneText THEN "" ELSE hostname, " ">> \o message)

\* detect_event_type
detect_event_type(message) == FirstMatch(EVENT_TYPE_PATTERNS, message)

\* the ParsedSyslogMessage of the fallback of parse_rfc3164
Fallback(f) ==
    LET pri_match == PriMatches(f.pri) /\ DotStarToEnd(AfterPri(f.body))
        priority == IF pri_match THEN parse_priority(f.pri.digits)
                    ELSE [facility |-> 1, severity |-> 6]
        message == IF pri_match THEN <<AfterPri(f.body)>> ELSE Raw(f)
    IN [facility |-> priority.facility, severity |-> priority.severity,
        version |-> 0, hostname |-> NoneText, app_name |-> NoneText,
        proc_id |-> NoneText, msg_id |-> NoneText, message |-> message,
        device_type |-> detect_device_type(message, NoneText),
        event_type |-> detect_event_type(message), raw_message |-> Raw(f)]

\* parse_rfc3164
parse_rfc3164(f) ==
    IF /\ PriMatches(f.pri)
       /\ f.body.header = "rfc3164"
       /\ DotStarToEnd(Rest(f.body))
    THEN LET priority == parse_priority(f.pri.digits)
             tag_match == f.body.app_name # ""
             message == IF tag_match THEN <<f.body.text>>
                        ELSE <<Rest(f.body)>>
         IN [facility |-> priority.facility, severity |-> priority.severity,
             version |-> 0, hostname |-> f.body.hostname,
             app_name |-> IF tag_match THEN f.body.app_name ELSE NoneText,
             proc_id |-> IF tag_match /\ f.body.proc_id # ""
                         THEN f.body.proc_id ELSE NoneText,
             msg_id |-> NoneText, message |-> message,
             device_type |-> detect_device_type(message, f.body.hostname),
             event_type |-> detect_event_type(message),
             raw_message |-> Raw(f)]
    ELSE Fallback(f)

\* None if value == "-" else value
NilValue(value) == IF value = "-" THEN NoneText ELSE value

\* parse_rfc5424
parse_rfc5424(f) ==
    IF /\ PriMatches(f.pri)
       /\ f.body.header = "rfc5424"
       /\ DotStarToEnd(f.body.text)
    THEN LET priority == parse_priority(f.pri.digits)
             hostname == NilValue(f.body.hostname)
         IN [facility |-> priority.facility, severity |-> priority.severity,
             version |-> 1, hostname |-> hostname,
             app_name |-> NilValue(f.body.app_name),
             proc_id |-> NilValue(f.body.proc_id),
             msg_id |-> NilValue(f.body.msg_id),
             message |-> <<f.body.text>>,
             device_type |-> detect_device_type(<<f.body.text>>, hostname),
             event_type |-> detect_event_type(<<f.body.text>>),
             raw_message |-> Raw(f)]
    ELSE parse_rfc3164(f)

\* parse_syslog_message: RFC 5424 if the frame starts with <PRI>, a digit
\* and white space
parse_syslog_message(f) ==
    IF PriMatches(f.pri) /\ f.body.header \in {"rfc5424", "version"}
    THEN parse_rfc5424(f)
    ELSE parse_rfc3164(f)

NoMessage == [facility |-> -1]

\* no datagram
NoFrame ==
    [pri |-> [bracket |-> FALSE, digits |-> <<>>],
     body |-> [header |-> "none", hostname |-> "", app_name |-> "",
               proc_id |-> "", msg_id |-> "", text |-> ""]]

\* a datagram has arrived and is not parsed yet
FrameReceived(f) ==
    /\ frame = f
    /\ parsed_message = NoMessage

\* parse_syslog_message(raw_message)
ParseSyslogMessage ==
    /\ parsed_message = NoMessage
    /\ parsed_message' = parse_syslog_message(frame)
    /\ UNCHANGED frame
    /\ UNCHANGED <<pollVars, syslogVars, cleanupVars, deviceVars, walkVars,
                   stigVars, libraryVars, storeVars>>

ParserNext == ParseSyslogMessage

(***************************************************************************)
(* Part VIII: interface store (_store_interface_metrics)                   *)
(***************************************************************************)
\* device_id of the devices whose interfaces are stored
StoredDevices == 1..2

\* what _get_interface_metrics found for one interface, if_index apart
IfaceValues ==
    {[name |-> "GigabitEthernet0/1", speed_mbps |-> 1000,
      admin_status |-> 1, oper_status |-> 1, in_octets |-> 1048576],
     [name |-> "GigabitEthernet0/1", speed_mbps |-> 1000,
      admin_status |-> 1, oper_status |-> 2, in_octets |-> 1048576],
     [name |-> "Interface 1", speed_mbps |-> None,
      admin_status |-> 5, oper_status |-> None, in_octets |-> None]}

\* the entries of `interfaces`
Ifaces ==
    {[if_index |-> i, name |-> v.name, speed_mbps |-> v.speed_mbps,
      admin_status |-> v.admin_status, oper_status |-> v.oper_status,
      in_octets |-> v.in_octets] : i \in 1..MaxInterfaces, v \in IfaceValues}

\* the lists _get_interface_metrics returns: one entry per if_index walked
InterfaceLists ==
    {list \in UNION {[1..n -> Ifaces] : n \in 0..MaxInterfaces} :
        \A i, j \in DOMAIN list :
            list[i].if_index = list[j].if_index => i = j}

\* "up" if status == 1 else "down" if status == 2 else "unknown"
StatusText(status) ==
    IF status = 1 THEN "up" ELSE IF status = 2 THEN "down" ELSE "unknown"

\* where npm.interfaces holds (device_id, if_index) (0: nowhere)
RowOf(table, device_id, if_index) ==
    IF \E i \in DOMAIN table :
          table[i].device_id = device_id /\ table[i].if_index = if_index
    THEN CHOOSE i \in DOMAIN table :
             table[i].device_id = device_id /\ table[i].if_index = if_index
    ELSE 0

\* the row INSERT INTO npm.interfaces writes
InterfaceRow(id, device_id, iface, at) ==
    [id |-> id, device_id |-> device_id, if_index |-> iface.if_index,
     name |-> iface.name, speed_mbps |-> iface.speed_mbps,
     admin_status |-> StatusText(iface.admin_status),
     oper_status |-> StatusText(iface.oper_status), updated_at |-> at]

\* INSERT INTO npm.interfaces without the ON CONFLICT clause
InsertInterface(table, device_id, iface, at) ==
    Append(table, InterfaceRow(Len(table) + 1, device_id, iface, at))

\* INSERT INTO npm.interfaces ... ON CONFLICT (device_id, if_index) DO UPDATE
UpsertInterface(table, device_id, iface, at) ==
    LET pos == RowOf(table, device_id, iface.if_index)
    IN IF pos = 0
       THEN Append(table, InterfaceRow(Len(table) + 1, device_id, iface, at))
       ELSE [table EXCEPT
                ![pos] = InterfaceRow(table[pos].id, device_id, iface, at)]

\* the row INSERT INTO npm.interface_metrics writes
MetricsRow(interface_id, device_id, iface, collected_at) ==
    [interface_id |-> interface_id, device_id |-> device_id,
     collected_at |-> collected_at, in_octets |-> iface.in_octets,
     admin_status |-> StatusText(iface.admin_status),
     oper_status |-> StatusText(iface.oper_status)]

RECURSIVE StoreLoop(_, _, _, _, _, _)
\* `for iface in interfaces`, from entry i on
StoreLoop(device_id, interfaces, i, collected_at, table, rows) ==
    IF i > Len(interfaces) THEN [interfaces |-> table, metrics |-> rows]
    ELSE LET iface == interfaces[i]
             upserted == UpsertInterface(table, device_id, iface, collected_at)
             interface_row == RowOf(upserted, device_id, iface.if_index)
         IN StoreLoop(device_id, interfaces, i + 1, collected_at, upserted,
                      IF interface_row # 0
                      THEN Append(rows, MetricsRow(upserted[interface_row].id,
                                                   device_id, iface, collected_at))
                      ELSE rows)

NoCall == [device_id |-> 0, interfaces |-> <<>>, collected_at |-> 0]

\* no poll has stored interfaces yet
StoreEmpty ==
    /\ npm_interfaces = <<>>
    /\ npm_interface_metrics = <<>>
    /\ store_call = NoCall
    /\ interfaces_before = <<>>
    /\ metrics_before = <<>>

\* _store_interface_metrics(device_id, interfaces, collected_at)
StoreInterfaceMetrics(device_id, interfaces) ==
    /\ store_call.collected_at < MaxPolls
    /\ LET collected_at == store_call.collected_at + 1
           stored == IF interfaces = <<>>
                     THEN [interfaces |-> npm_interfaces,
                           metrics |-> npm_interface_metrics]
                     ELSE StoreLoop(device_id, interfaces, 1, collected_at,
                                    npm_interfaces, npm_interface_metrics)
       IN /\ npm_interfaces' = stored.interfaces
          /\ npm_interface_metrics' = stored.metrics
          /\ store_call' = [device_id |-> device_id,
                            interfaces |-> interfaces,
                            collected_at |-> collected_at]
    /\ interfaces_before' = npm_interfaces
    /\ metrics_before' = npm_interface_metrics
    /\ UNCHANGED <<pollVars, syslogVars, cleanupVars, deviceVars, walkVars,
                   stigVars, libraryVars, parserVars>>

StoreNext ==
    \E device_id \in StoredDevices, interfaces \in InterfaceLists :
        StoreInterfaceMetrics(device_id, interfaces)

\* the parts that follow Part V, before their first operation
LaterAtRest ==
    /\ IndexerCreated({}, NoCache)
    /\ FrameReceived(NoFrame)
    /\ StoreEmpty

(***************************************************************************)
(* Specifications                                                          *)
(***************************************************************************)
\* the settings row of a fresh installation
DefaultSettings == [max_size_bytes |-> 3, cleanup_threshold_percent |-> 50,
                    retention_days |-> 1]

NoDays == [i \in MsgIds |-> 0]

\* the root that stands for OID_IF_DESCR (...2.2.1.2)
IfDescrRoot == <<1, 2>>

\* a device polled by ICMP only
IcmpOnlyDevice == [poll_icmp |-> TRUE, poll_snmp |-> FALSE, sophos |-> FALSE,
                   decrypt |-> "ok"]

Init ==
    /\ PollInit
    /\ SyslogStarted(0, NoDays, MaxMsgs)
    /\ CleanupIdle
    /\ settings_row = DefaultSettings
    /\ now = 0
    /\ DeviceEntered(IcmpOnlyDevice)
    /\ WalkStarted(IfDescrRoot)
    /\ EvaluatorCreated(EmptyContent)
    /\ LaterAtRest

\* the same with a long run of datagrams
OutageInit ==
    /\ PollInit
    /\ SyslogStarted(0, NoDays, MaxOutageMsgs)
    /\ CleanupIdle
    /\ settings_row = DefaultSettings
    /\ now = 0
    /\ DeviceEntered(IcmpOnlyDevice)
    /\ WalkStarted(IfDescrRoot)
    /\ EvaluatorCreated(EmptyContent)
    /\ LaterAtRest

\* one execution of _poll_device, for every kind of device row
DeviceInit ==
    /\ PollInit
    /\ SyslogStarted(0, NoDays, 0)
    /\ CleanupIdle
    /\ settings_row = DefaultSettings
    /\ now = 0
    /\ \E dev \in DeviceRows : DeviceEntered(dev)
    /\ WalkStarted(IfDescrRoot)
    /\ EvaluatorCreated(EmptyContent)
    /\ LaterAtRest

DeviceSpec == DeviceInit /\ [][DeviceNext]_vars

\* one call of walk, for every root, against an agent that may answer
\* anything
WalkInit ==
    /\ PollInit
    /\ SyslogStarted(0, NoDays, 0)
    /\ CleanupIdle
    /\ settings_row = DefaultSettings
    /\ now = 0
    /\ DeviceEntered(IcmpOnlyDevice)
    /\ \E root \in WalkRoots : WalkStarted(root)
    /\ EvaluatorCreated(EmptyContent)
    /\ LaterAtRest

WalkSpec == WalkInit /\ [][WalkNext]_vars

\* every next_cmd returns or raises within its timeout
WalkFairSpec == WalkSpec /\ WF_vars(WalkNext)

\* one handler call, for every configuration text and every rule title
StigInit ==
    /\ PollInit
    /\ SyslogStarted(0, NoDays, 0)
    /\ CleanupIdle
    /\ settings_row = DefaultSettings
    /\ now = 0
    /\ DeviceEntered(IcmpOnlyDevice)
    /\ WalkStarted(IfDescrRoot)
    /\ \E content \in Contents : EvaluatorCreated(content)
    /\ LaterAtRest

StigSpec == StigInit /\ [][StigNext]_vars

\* the library indexer, over every folder of at most MaxZips archives
LibraryInit ==
    /\ PollInit
    /\ SyslogStarted(0, NoDays, 0)
    /\ CleanupIdle
    /\ settings_row = DefaultSettings
    /\ now = 0
    /\ DeviceEntered(IcmpOnlyDevice)
    /\ WalkStarted(IfDescrRoot)
    /\ EvaluatorCreated(EmptyContent)
    /\ \E folder \in SUBSET ZipFiles :
          /\ Cardinality(folder) <= MaxZips
          /\ IndexerCreated(folder, NoCache)
    /\ FrameReceived(NoFrame)
    /\ StoreEmpty

LibrarySpec == LibraryInit /\ [][LibraryNext]_vars

\* a catalog filled by add_entry calls
CatalogSpec == Init /\ [][CatalogNext]_vars

\* parse_syslog_message, for every frame
ParserInit ==
    /\ PollInit
    /\ SyslogStarted(0, NoDays, 0)
    /\ CleanupIdle
    /\ settings_row = DefaultSettings
    /\ now = 0
    /\ DeviceEntered(IcmpOnlyDevice)
    /\ WalkStarted(IfDescrRoot)
    /\ EvaluatorCreated(EmptyContent)
    /\ IndexerCreated({}, NoCache)
    /\ \E f \in Frames : FrameReceived(f)
    /\ StoreEmpty

ParserSpec == ParserInit /\ [][ParserNext]_vars

\* polls that store the interfaces of their device
StoreSpec == Init /\ [][StoreNext]_vars

\* the poll scheduler
PollSpec == Init /\ [][PollNext]_vars

\* the poll scheduler with a stop() at any moment
PollStopNext == PollNext \/ PollerStop

PollStopSpec == Init /\ [][PollStopNext]_vars

\* the event loop runs every task that is ready: the scheduler loop and each
\* poll task take their next step; whether a poll step succeeds or raises is
\* the environment's choice, and the device query, retried every cycle, is
\* taken to succeed again and again
PollFairSpec ==
    /\ PollSpec
    /\ WF_vars(LoopStep)
    /\ SF_vars(FetchBatch)
    /\ \A i \in Slots : WF_vars(TaskStep(i))

\* the syslog collector: receive path, periodic flush and stop()
SyslogSpec == Init /\ [][SyslogNext]_vars

\* the receive path and the periodic flush while the database is
\* unreachable: every flush ends in its except branch
OutageNext ==
    \/ Receive
    \/ \E id \in MsgIds : MsgStart(id)
    \/ \E h \in MsgIds \cup {FlusherId} : LockGranted(h)
    \/ FlushFail
    \/ \E id \in MsgIds : MsgPublish(id)
    \/ \E id \in MsgIds : MsgAlert(id)
    \/ \E id \in MsgIds : MsgPublishRaise(id)
    \/ FlusherCheck
    \/ FlusherWake

SyslogOutageSpec == OutageInit /\ [][OutageNext]_vars

\* a cleanup run starts over an events table filled earlier
CleanupInit ==
    /\ PollInit
    /\ CleanupIdle
    /\ settings_row \in SettingsRows
    /\ now \in 0..MaxTime
    /\ \E k \in 0..MaxRows : \E r \in PreloadedDays(k, now) :
           SyslogStarted(k, r, k)
    /\ DeviceEntered(IcmpOnlyDevice)
    /\ WalkStarted(IfDescrRoot)
    /\ EvaluatorCreated(EmptyContent)
    /\ LaterAtRest

\* the cleanup loop of the syslog collector over a preloaded events table
CleanupSpec == CleanupInit /\ [][CleanupNext]_vars

(***************************************************************************)
(* Claims about the poll scheduler                                         *)
(***************************************************************************)
HoldingSlots == {i \in 1..Len(batch) : taskPc[i] \in Holding}

AllSettled == \A i \in 1..Len(batch) : taskPc[i] \in Settled

\* C1: no device ever has two _poll_device executions in flight, and outside
\* the gather of a cycle (sleep, loop test, next fetch) no poll is in flight
\* at all: the next cycle starts only after every poll has settled.
C1_AtMostOnePollPerDevice ==
    /\ \A d \in Devices : inflight[d] <= 1
    /\ loopPc # "gather" => \A d \in Devices : inflight[d] = 0

\* a device is being polled again in a later cycle, alone in flight
C1_Witness ==
    \E d \in Devices : inflight[d] = 1 /\ last_poll[d] # NULL

\* C2: the polls inside `async with semaphore` never outnumber
\* max_concurrent_polls, and every slot taken is accounted for: a poll that
\* raised has given its slot back.
C2_SemaphoreBound ==
    /\ Cardinality(HoldingSlots) <= MaxConcurrent
    /\ loopPc = "gather" => semValue + Cardinality(HoldingSlots) = MaxConcurrent

\* the semaphore is full again after a poll of the same cycle has raised
C2_Witness ==
    /\ Cardinality(HoldingSlots) = MaxConcurrent
    /\ \E i \in 1..Len(batch) : taskPc[i] = "failed"

\* C3 (as claimed): in every fair execution every active device is
\* eventually polled.
C3_StarvationFreedom == \A d \in Devices : <>(d \in polled)

\* C4: a poll that raises does not fail the batch: the loop leaves the
\* gather only when every poll of the batch has settled, and after a poll
\* has raised the cycle still finishes (the loop reaches its sleep with the
\* whole batch settled) and a next cycle is started.
C4_ExceptionDoesNotFailBatch ==
    /\ [](loopPc # "gather" => AllSettled)
    /\ ((\E i \in 1..Len(batch) : taskPc[i] = "failed")
            ~> (loopPc = "sleep" /\ AllSettled))
    /\ ((loopPc = "sleep" /\ \E i \in 1..Len(batch) : taskPc[i] = "failed")
            ~> (loopPc = "fetch"))

\* the cycle has finished with one poll failed and another one completed
C4_Witness ==
    /\ loopPc = "sleep"
    /\ \E i, j \in 1..Len(batch) : taskPc[i] = "failed" /\ taskPc[j] = "done"

\* C19 (as claimed): a stop() during a cycle does not interrupt the polls
\* that are running: a running poll only ever moves on to its next step or
\* settles.
C19_RunningPollsNotInterrupted ==
    [][\A i \in Slots :
          taskPc[i] \in Holding => taskPc'[i] \in Holding \cup Settled]_vars

\* C19 (amended): stop() cancels the poll task and, through the gather, every
\* poll of the cycle that has not settled: once _running is cleared no poll
\* is running or waiting, no device is in flight, the loop has ended and no
\* further cycle starts; polls that had settled keep their outcome.
C19_StopCancelsRunningPolls ==
    ~poll_running =>
        /\ loopPc = "cancelled"
        /\ \A i \in Slots : taskPc[i] \in Settled \cup {"cancelled", "none"}
        /\ \A d \in Devices : inflight[d] = 0

\* stop() came while one poll of the cycle had finished and another one,
\* entered but never recorded, was cancelled
C19_Witness ==
    /\ ~poll_running
    /\ \E i, j \in 1..Len(batch) :
          /\ taskPc[i] = "done"
          /\ taskPc[j] = "cancelled"
          /\ batch[j] \in polled
          /\ last_poll[batch[j]] = NULL

(***************************************************************************)
(* Claims about the syslog collector                                       *)
(***************************************************************************)
\* events that process_message has appended to the buffer
Accepted ==
    {id \in MsgIds : msgPc[id] \in {"flushing", "publish", "alert", "done"}}

\* rows of syslog.events with the given id
RowCount(id) == Cardinality({i \in DOMAIN events_table : events_table[i] = id})

\* C5 (as claimed): when exactly one flush has failed and the flush after it
\* has succeeded, every event that has left the buffer is in syslog.events
\* exactly once.
C5_RetryStoresExactlyOnce ==
    (flushFails = 1 /\ lastFlush = "ok" /\ flushPc = "idle")
        => \A id \in Accepted \ Range(event_buffer) : RowCount(id) = 1

\* C6 (as claimed): the in-memory buffer never holds more than
\* 10 x batch_size events.
C6_BufferBounded == Len(event_buffer) <= batch_size * RequeueFactor

\* C7 (as claimed): after a cleanup pass that ran to completion the recorded
\* current_size_bytes is at most max_size_bytes.
C7_SizeWithinQuota ==
    lastPass = "completed" => current_size_bytes <= settings_row.max_size_bytes

\* ids of the rows a step removes from syslog.events
Removed == Range(events_table) \ Range(events_table')

C10_StopFlushesEverything ==
    (stopPc = "returned" /\ flushFails = 0)
        => /\ event_buffer = <<>>
           /\ \A id \in Accepted : RowCount(id) >= 1

\* C11 (as claimed): every processed event has its publish on syslog.events
\* issued, and its publish on syslog.alerts.<severity> is issued exactly when
\* its severity is at most 3, whatever happens to the other publish: a task
\* awaits the alert publish only for an alert severity, and a task that
\* returns without having issued the alert publish holds an event of
\* severity 4..7.
C11_AlertIffSevere ==
    [][\A id \in MsgIds :
          /\ msgPc'[id] = "done" => msgPc[id] \in {"publish", "alert", "done"}
          /\ msgPc'[id] = "alert" => severity[id] <= 3
          /\ (msgPc[id] = "publish" /\ msgPc'[id] = "done") => severity[id] > 3]_vars

\* event ids are handed out in receive order
InReceiveOrder(events) ==
    \A i, j \in DOMAIN events : i < j => events[i] < events[j]

\* C12: events are stored in receive order: the buffer and the batch of the
\* flush in progress (whose rows executemany inserts in list order) are in
\* receive order, so after a failed flush the re-queued events precede every
\* event received later, and each batch is added to syslog.events as one
\* run of rows in receive order.
C12_ReceiveOrder ==
    /\ InReceiveOrder(event_buffer)
    /\ InReceiveOrder(flushEvents)
    /\ \A i \in DOMAIN event_buffer : \A j \in DOMAIN flushEvents :
           flushEvents[j] < event_buffer[i]

\* a batch re-queued by a failed flush is being inserted together with an
\* event received after that flush
C12_Witness ==
    /\ flushFails >= 1
    /\ flushPc = "insert"
    /\ Len(flushEvents) > batch_size

(***************************************************************************)
(* Claims about one device poll                                            *)
(***************************************************************************)
Inserted == metrics_row # NoMetricsRow

\* the SNMP-derived fields of a row are as DeviceMetrics creates them
SnmpFieldsBlank(row) ==
    /\ row.uptime_seconds = None
    /\ row.cpu_utilization = None
    /\ row.memory_utilization = None
    /\ row.disk_utilization = None
    /\ row.services_status = None
    /\ row.interface_count = 0
    /\ row.interface_up_count = 0
    /\ row.interface_down_count = 0

\* C13 (as claimed): when decrypting a stored password fails, the SNMP
\* section of the poll is skipped: no SNMP request is sent, the inserted row
\* has no SNMP-derived value, the ICMP fields are recorded, and the device
\* row gets snmp_status = unknown.
C13_DecryptFailureSkipsSnmp ==
    (device.poll_snmp /\ device.decrypt = "failed") =>
        /\ ~snmp_sent
        /\ Inserted => SnmpFieldsBlank(metrics_row)
        /\ (Inserted /\ device.poll_icmp) => metrics_row.icmp_reachable # "null"
        /\ devPc = "done" => devices_row.snmp_status = "unknown"

\* C14 (as claimed): in every inserted row
\* interfaces_up + interfaces_down <= total_interfaces.
C14_UpDownWithinTotal ==
    Inserted =>
        metrics_row.interface_up_count + metrics_row.interface_down_count
            <= metrics_row.interface_count

\* C15: in every inserted row is_available is true exactly when
\* icmp_reachable is true or uptime_seconds is present and positive, and the
\* status written to the device row is 'up' exactly when is_available.
C15_AvailabilityRule ==
    /\ Inserted =>
          (metrics_row.is_available <=>
              \/ metrics_row.icmp_reachable = "true"
              \/ (metrics_row.uptime_seconds # None
                    /\ metrics_row.uptime_seconds > 0))
    /\ devPc = "done" => (devices_row.status = "up" <=> metrics_row.is_available)

\* an unreachable device that answered sysUpTime is up, and another one
\* whose uptime is below one second would not be
C15_Witness ==
    /\ devPc = "done"
    /\ metrics_row.icmp_reachable = "false"
    /\ metrics_row.uptime_seconds > 0
    /\ devices_row.status = "up"

\* C17: ping does not raise: after a subprocess that timed out, failed or
\* exited non-zero the result is unreachable, no latency, 100% loss, and
\* the poll goes on: if it ends early, it is a later database statement
\* that ended it.
C17_PingNeverRaises ==
    ping_outcome \in {"nonzero", "timeout", "error"} =>
        /\ metrics.icmp_reachable = "false"
        /\ metrics.icmp_latency_ms = None
        /\ metrics.icmp_packet_loss_percent = 100
        /\ devPc = "failed" => steps[Len(steps)] \in {"ifstore", "store", "update"}

\* after a ping timeout the SNMP section has run and the row is inserted
C17_Witness ==
    /\ ping_outcome = "timeout"
    /\ snmp_sent
    /\ Inserted
    /\ metrics_row.icmp_reachable = "false"
    /\ metrics_row.icmp_packet_loss_percent = 100

\* the order of the steps of a poll
StepOrder == <<"icmp", "uptime", "cpu", "memory", "ifnumber", "disk", "walk",
               "sophos", "store", "update">>

RankOf == [st \in Range(StepOrder) |->
              CHOOSE i \in DOMAIN StepOrder : StepOrder[i] = st]

\* C18: the steps of a poll run one after the other in the order ICMP ping,
\* sysUpTime, CPU, memory, ifNumber, disk, interface walk, Sophos services,
\* metrics insert, status update; the Sophos GETs only for a sophos device;
\* the status update (which sets last_poll) only after the row of the poll
\* has been inserted.
C18_StepOrder ==
    /\ \A i, j \in DOMAIN steps :
          (i < j /\ steps[i] \in Range(StepOrder) /\ steps[j] \in Range(StepOrder))
              => RankOf[steps[i]] < RankOf[steps[j]]
    /\ "sophos" \in Range(steps) => device.sophos
    /\ "update" \in Range(steps) => Inserted
    /\ devices_row.last_poll = "this poll" => Inserted

\* a poll of a sophos device has run through all ten steps
C18_Witness ==
    /\ devPc = "done"
    /\ steps = StepOrder

(***************************************************************************)
(* Claims about the SNMP walk                                              *)
(***************************************************************************)
\* o is root or below it in the OID tree: root is a component-wise prefix
IsDescendant(o, root) ==
    Len(root) <= Len(o) /\ SubSeq(o, 1, Len(root)) = root

\* C16 (as claimed): walk terminates whatever the agent answers, returns at
\* most max_rows entries, and every OID it returns is a descendant of the
\* walk root in the OID tree (a component-wise prefix): it stops at the
\* first OID outside the subtree.
C16_WalkStaysInSubtree ==
    /\ [](/\ rows_fetched <= max_rows
          /\ Cardinality(results) <= max_rows
          /\ \A o \in results : IsDescendant(o, walk_root))
    /\ <>(walkPc = "returned")

(***************************************************************************)
(* Claims about the STIG evaluator                                         *)
(***************************************************************************)
\* lines without the check mark that still report an item as found or
\* configured
FoundTexts == {"SNMPv3 configuration found in config",
               "Idle timeout configured: 5 minutes",
               "Idle timeout configured: 10 minutes",
               "Idle timeout configured: 60 minutes"}

\* the line is an affirmative indicator: a matched item marked with the
\* check mark, or reported as found or configured
Affirmative(l) == l.mark \/ l.text \in FoundTexts

\* lines that name a missing or an offending item
DefectTexts == {"SSH service not configured",
                "SSH root-login is not set to deny",
                "SNMPv3 uses MD5 (should use SHA)",
                "SNMPv3 uses DES (should use AES)",
                "SNMPv3 not configured",
                "WARNING: SNMP community strings found (v1/v2c): 1 communities",
                "No NTP servers configured",
                "No remote syslog servers configured",
                "No session timeout configuration found",
                "No centralized authentication configured",
                "No security screens configured",
                "WARNING: Default permit-all policy found",
                "No login banner configured",
                "No password/lockout policy found"}

FindingLines == Range(check_result.finding)

\* C20: whatever the rule and the configuration, a handler returns PASS only
\* with a finding that holds at least one affirmative indicator, never with
\* only a default, a warning or a "not configured" text, and every FAIL
\* finding names the missing or offending item.
C20_PassCarriesIndicator ==
    /\ check_result.status = "pass" =>
           \E l \in FindingLines : Affirmative(l)
    /\ check_result.status = "fail" =>
           \E l \in FindingLines : l.text \in DefectTexts

Evaluated == check_result # NoResult

\* "\n".join(findings) is not the empty string
NonEmpty(finding) ==
    /\ finding # <<>>
    /\ Len(finding) > 1 \/ finding[1].text # ""

\* C21: every rule evaluation, whatever the title, the check text, the fix
\* text and the configuration, calls exactly one handler, and the finding
\* returned with a status of pass or fail is not empty.
C21_OneHandlerNonEmptyFinding ==
    Evaluated =>
        /\ Cardinality(handler) = 1
        /\ check_result.status \in {"pass", "fail"} =>
               NonEmpty(check_result.finding)

\* a pass whose findings list was empty: the default text is the finding
C21_Witness ==
    /\ handler = {"_check_ssh"}
    /\ check_result = PASS(<<Line("SSH configuration appears compliant")>>)

\* the rule is about SSH root login and the configuration is a list of `set`
\* commands
RootLoginRule ==
    /\ Evaluated
    /\ In("ssh", title) /\ In("root", title)
    /\ config.raw_content.style = "set"

HasRootLoginDeny == "root-login deny" \in config.raw_content.statements

MentionsSsh ==
    /\ Contains(config.raw_content, "services")
    /\ Contains(config.raw_content, "ssh")

\* C22 as stated: with `set system services ssh root-login deny` in the
\* configuration the rule passes with "SSH root-login deny found in config"
\* (check mark) in the finding; without that line it fails with "SSH
\* root-login is not set to deny" in the finding.
C22_RootLoginDenyDecides ==
    RootLoginRule =>
        IF HasRootLoginDeny
        THEN /\ check_result.status = "pass"
             /\ Marked("SSH root-login deny found in config") \in FindingLines
        ELSE /\ check_result.status = "fail"
             /\ Line("SSH root-login is not set to deny") \in FindingLines

\* C22 amended: without that line the rule fails, with "SSH root-login is not
\* set to deny" in the finding when the rest of the text still contains
\* "services" and "ssh", and with "SSH service not configured" otherwise.
C22_RootLoginDenyDecidesIfSshLeft ==
    RootLoginRule =>
        IF HasRootLoginDeny
        THEN /\ check_result.status = "pass"
             /\ Marked("SSH root-login deny found in config") \in FindingLines
        ELSE /\ check_result.status = "fail"
             /\ IF MentionsSsh
                THEN Line("SSH root-login is not set to deny") \in FindingLines
                ELSE check_result.finding
                         = <<Line("SSH service not configured")>>

\* the rule has failed on a text that mentions SSH without the deny line
C22_Witness ==
    /\ RootLoginRule
    /\ ~HasRootLoginDeny /\ MentionsSsh
    /\ check_result.status = "fail"

\* the idle timeouts the configuration sets
IdleTimeouts ==
    {TimeoutOf(s) : s \in config.raw_content.statements} \ {None}

\* C23: a rule whose title concerns the session or idle timeout passes only
\* if the configuration sets an idle-timeout of at most 10 minutes, and fails
\* if it sets none.
C23_IdleTimeoutAtMostTen ==
    (Evaluated /\ (\/ In("timeout", title)
                   \/ In("idle", title)
                   \/ In("session", title))) =>
        /\ check_result.status = "pass" => \E m \in IdleTimeouts : m <= 10
        /\ IdleTimeouts = {} => check_result.status = "fail"

(***************************************************************************)
(* Claims about the STIG library                                           *)
(***************************************************************************)
\* the benchmark ids of a catalog
Ids(cat) == {cat.entries[i].benchmark_id : i \in DOMAIN cat.entries}

\* two catalogs hold the same ids, equal entries (the CCIs are sets) and
\* answer every platform lookup with the same entries, as often
StructurallyEqual(a, b) ==
    /\ Ids(a) = Ids(b)
    /\ Range(a.entries) = Range(b.entries)
    /\ \A p \in Platforms :
          /\ Range(get_by_platform(a, p)) = Range(get_by_platform(b, p))
          /\ Len(get_by_platform(a, p)) = Len(get_by_platform(b, p))

\* the last two operations were scans of the folder, nothing in between
TwoScans ==
    /\ Len(ops) = 2
    /\ ops[1] \in {"scan", "rescan"}
    /\ ops[2] \in {"scan", "rescan"}

\* C24: two consecutive scans of an unchanged library folder produce
\* structurally equal catalogs: the same benchmark ids, equal entries, the
\* same per-platform lookup results.
C24_ConsecutiveScansEqual == TwoScans => StructurallyEqual(before, catalog)

\* the entries of the ZIPs that lie in the folder
InFolder == {parse_zip(zip) : zip \in library} \ {NoEntry}

\* C25: after get_or_scan(force_rescan = TRUE) the catalog and the saved
\* cache hold exactly the entries of the ZIPs now in the folder; a load from
\* the cache parses no ZIP and yields the cached catalog.
C25_RescanRebuilds ==
    /\ (ops # <<>> /\ ops[Len(ops)] = "rescan") =>
           /\ Ids(catalog) = {e.benchmark_id : e \in InFolder}
           /\ Range(catalog.entries) \subseteq InFolder
           /\ cache.present
           /\ {EntryFromDict(cache.entries[i]) : i \in DOMAIN cache.entries}
                  = Range(catalog.entries)
    /\ (ops # <<>> /\ ops[Len(ops)] = "load") =>
           /\ parsed = <<>>
           /\ cache.present
           /\ Range(catalog.entries) =
                  {EntryFromDict(cache.entries[i]) : i \in DOMAIN cache.entries}

\* C30: after any sequence of add_entry calls get_by_platform(p) returns
\* exactly the entries whose platforms contain p, each once: the same set as
\* search(platform = p).
C30_PlatformLookupMatchesSearch ==
    \A p \in Platforms :
        LET found == get_by_platform(catalog, p)
        IN /\ Range(found) = {e \in Range(catalog.entries) :
                                 p \in Range(e.platforms)}
           /\ Cardinality(Range(found)) = Len(found)
           /\ Range(found) = Range(search(catalog, p))

(***************************************************************************)
(* Claims about the syslog parser                                          *)
(***************************************************************************)
\* parse_syslog_message has returned
Parsed == parsed_message # NoMessage

\* the number the digits of the PRI field spell
PriValue == int(frame.pri.digits)

\* C26: for every frame that starts with <PRI> (one to three digits), on the
\* RFC 5424, the RFC 3164 and the PRI-only path, facility = PRI >> 3 and
\* severity = PRI & 7.
C26_PriorityDecoded ==
    (Parsed /\ PriMatches(frame.pri)) =>
        /\ parsed_message.facility = PriValue \div 8
        /\ parsed_message.severity = PriValue % 8

\* C27: every parsed datagram, whatever its PRI field (0..999 or none), has
\* a facility in 0..23 and a severity in 0..7.
C27_FacilitySeverityInRange ==
    Parsed =>
        /\ parsed_message.facility \in 0..23
        /\ parsed_message.severity \in 0..7

\* scenario 3: "<189>Mar  1 09:00:00 rtr1 %LINK-3-UPDOWN: Interface
\* GigabitEthernet0/1, changed state to down"
Scenario3 ==
    [pri |-> [bracket |-> TRUE, digits |-> <<1, 8, 9>>],
     body |-> [header |-> "rfc3164", hostname |-> "rtr1",
               app_name |-> "%LINK-3-UPDOWN", proc_id |-> "", msg_id |-> "",
               text |-> "Interface GigabitEthernet0/1, changed state to down"]]

\* the fields of scenario 3 other than the device type
Scenario3Fields ==
    /\ parsed_message.facility = 23
    /\ parsed_message.severity = 5
    /\ parsed_message.hostname = "rtr1"
    /\ parsed_message.app_name = "%LINK-3-UPDOWN"
    /\ parsed_message.message =
           <<"Interface GigabitEthernet0/1, changed state to down">>
    /\ parsed_message.event_type = "link_state"

\* `kind` is the result of the first pattern of the list found in the text,
\* None if no pattern is found
IsFirstMatch(kind, patterns, pieces) ==
    \/ /\ kind = NoneText
       /\ \A i \in DOMAIN patterns : ~Search(patterns[i][1], pieces)
    \/ \E i \in DOMAIN patterns :
           /\ kind = patterns[i][2]
           /\ Search(patterns[i][1], pieces)
           /\ \A j \in 1..(i - 1) : ~Search(patterns[j][1], pieces)

\* the device type and the event type are the first matches of the two
\* pattern lists, over host name and message and over the message
FirstMatches ==
    /\ IsFirstMatch(parsed_message.device_type, DEVICE_TYPE_PATTERNS,
                    <<IF parsed_message.hostname = NoneText THEN ""
                      ELSE parsed_message.hostname>>
                    \o parsed_message.message)
    /\ IsFirstMatch(parsed_message.event_type, EVENT_TYPE_PATTERNS,
                    parsed_message.message)

\* C29: the frame of scenario 3 yields facility 23, severity 5, hostname
\* rtr1, app_name %LINK-3-UPDOWN, the message text, device_type cisco and
\* event_type link_state; every classification is the first match of the
\* ordered pattern lists over host name and message.
C29_Scenario3Cisco ==
    Parsed =>
        /\ FirstMatches
        /\ frame = Scenario3 =>
               Scenario3Fields /\ parsed_message.device_type = "cisco"

\* C29, amended: the same, with no device type for the frame of scenario 3,
\* whose host name and message hold none of the device patterns.
C29_Scenario3NoDeviceType ==
    Parsed =>
        /\ FirstMatches
        /\ frame = Scenario3 =>
               Scenario3Fields /\ parsed_message.device_type = NoneText

C29_Witness ==
    /\ Parsed
    /\ frame = Scenario3
    /\ parsed_message.event_type = "link_state"
    /\ parsed_message.device_type = NoneText

(***************************************************************************)
(* Claims about the interface store                                        *)
(***************************************************************************)
\* the rows of npm.interfaces for (device_id, if_index)
KeyRows(table, device_id, if_index) ==
    {i \in DOMAIN table :
        table[i].device_id = device_id /\ table[i].if_index = if_index}

\* name, speed and statuses of the row are those of the entry
RowHolds(row, iface) ==
    /\ row.name = iface.name
    /\ row.speed_mbps = iface.speed_mbps
    /\ row.admin_status = StatusText(iface.admin_status)
    /\ row.oper_status = StatusText(iface.oper_status)

\* the entry of the last call was in npm.interfaces already, with the same
\* name, speed and statuses
SameTupleAgain(iface) ==
    \E i \in KeyRows(interfaces_before, store_call.device_id, iface.if_index) :
        RowHolds(interfaces_before[i], iface)

\* the metrics rows the last call appended
Appended ==
    SubSeq(npm_interface_metrics, Len(metrics_before) + 1,
           Len(npm_interface_metrics))

\* C28: npm.interfaces holds at most one row per (device_id, if_index);
\* upserting the same tuple again leaves that one row with name, speed and
\* statuses unchanged; each poll appends one interface_metrics row per
\* discovered interface.
C28_InterfaceUpsert ==
    /\ \A i, j \in DOMAIN npm_interfaces :
          (/\ npm_interfaces[i].device_id = npm_interfaces[j].device_id
           /\ npm_interfaces[i].if_index = npm_interfaces[j].if_index)
             => i = j
    /\ \A k \in DOMAIN store_call.interfaces :
          LET iface == store_call.interfaces[k]
              rows == KeyRows(npm_interfaces, store_call.device_id,
                              iface.if_index)
          IN /\ Cardinality(rows) = 1
             /\ \A i \in rows : RowHolds(npm_interfaces[i], iface)
             /\ SameTupleAgain(iface) =>
                   \A i \in rows :
                       /\ i \in DOMAIN interfaces_before
                       /\ npm_interfaces[i].id = interfaces_before[i].id
                       /\ RowHolds(interfaces_before[i], iface)
             /\ Len(Appended) = Len(store_call.interfaces)
             /\ \A i \in rows :
                   Appended[k] = MetricsRow(npm_interfaces[i].id,
                                            store_call.device_id, iface,
                                            store_call.collected_at)
    /\ SubSeq(npm_interface_metrics, 1, Len(metrics_before)) = metrics_before
    /\ store_call.interfaces = <<>> => Appended = <<>>

\* a poll has stored an interface that an earlier poll had stored with the
\* same name, speed and statuses
C28_Witness ==
    /\ store_call.collected_at = 2
    /\ \E k \in DOMAIN store_call.interfaces :
          SameTupleAgain(store_call.interfaces[k])
    /\ Len(npm_interface_metrics) > Len(npm_interfaces)
====
